---- MODULE Spec2Model ----
(***************************************************************************)
(* A model of the CHIP-8 core of my_chip_eight: the Emulator state of      *)
(* src/emulator/mod.rs and the opcode execution of                         *)
(* src/emulator/command_execution.rs.                                      *)
(*                                                                         *)
(* execute_opcode returns (): the only way a step can fail is a Rust       *)
(* panic.  outcome records it: "ok", or the panic that ended the step.     *)
(* After a panic no further step is taken.                                 *)
(*                                                                         *)
(* The decoder of src/emulator/opcode.rs, OpCode::from((u8, u8)), is the   *)
(* operator from: it too can only fail by a panic.  A caller decodes an    *)
(* instruction (Decode) and hands the OpCode to execute_opcode (Execute),  *)
(* or builds an OpCode itself and executes it (every other action).        *)
(*                                                                         *)
(* u8/u16 arithmetic written with + and - panics on overflow when the      *)
(* crate is built with overflow checks (the dev/test profile) and wraps    *)
(* when it is built without (the release profile); overflow_checks is the  *)
(* profile of the build, chosen once in Init.                              *)
(***************************************************************************)
EXTENDS Integers, Sequences, FiniteSets, TLC

VARIABLES
    memory,           \* Emulator::memory, the nonzero cells only: address -> byte
    registers,        \* Emulator::registers: 0..15 -> byte
    index_register,   \* Emulator::index_register: u16
    program_counter,  \* Emulator::program_counter: u16
    stack,            \* Emulator::stack: Vec<u16>
    delay_timer,      \* Emulator::delay_timer: u8
    sound_timer,      \* Emulator::sound_timer: u8
    overflow_checks,  \* whether the build panics on integer overflow
    outcome,          \* "ok", or the panic message of the step that failed
    trace,            \* the opcodes executed so far, each with the machine before it
    instruction,      \* the byte pair given to OpCode::from, << >> if none was
    decoded,          \* the OpCode it returned and not yet executed, or NoOpCode
    rng               \* Emulator::rng, as the bytes RNG::rand has returned so far

machine == <<memory, registers, index_register, program_counter, stack,
             delay_timer, sound_timer>>
vars == <<memory, registers, index_register, program_counter, stack,
          delay_timer, sound_timer, overflow_checks, outcome, trace,
          instruction, decoded, rng>>

----------------------------------------------------------------------------
(* Program constants *)

MemorySize == 4096
NumRegisters == 16
StackCapacity == 12
U8 == 256
U16 == 65536

Byte == 0..(U8 - 1)
Reg == 0..(NumRegisters - 1)

(* Panic messages *)
PanicNativeCall == "Called a _NativeCall OpCode, which is deprecated"
PanicTodo == "not yet implemented"
PanicUnwrapNone == "called Option::unwrap() on a None value"
PanicAddOverflow == "attempt to add with overflow"
PanicSubOverflow == "attempt to subtract with overflow"
PanicOpcodeNotFound == "Opcode not found"
PanicIndex == "index out of bounds"

----------------------------------------------------------------------------
(* Bounds of the model *)

MaxStackSteps == 4
MaxMemSteps == 3
MaxTimerSteps == 4
MaxSteps == 2
MaxFrameSteps == 2

----------------------------------------------------------------------------
(* Helpers *)

\* The machine as one value: the snapshot kept in trace.
Machine ==
    [memory |-> memory, registers |-> registers, index_register |-> index_register,
     program_counter |-> program_counter, stack |-> stack,
     delay_timer |-> delay_timer, sound_timer |-> sound_timer]

\* memory[a] of the [u8; 4096] array, for a < 4096.
mem_get(m, a) == IF a \in DOMAIN m THEN m[a] ELSE 0

\* memory[a] = v
mem_set(m, a, v) ==
    [b \in (IF v = 0 THEN DOMAIN m \ {a} ELSE DOMAIN m \cup {a}) |->
        IF b = a THEN v ELSE m[b]]

get_reg(register) == registers[register]

set_reg(regs, register, value) == [regs EXCEPT ![register] = value]

\* Bitwise operators on bytes, bit by bit.
RECURSIVE bitop(_, _, _, _)
bitop(f, a, b, n) ==
    IF n = 0 THEN 0
    ELSE (IF f = "or" THEN (IF a % 2 = 1 \/ b % 2 = 1 THEN 1 ELSE 0)
          ELSE IF f = "and" THEN (IF a % 2 = 1 /\ b % 2 = 1 THEN 1 ELSE 0)
          ELSE (IF a % 2 # b % 2 THEN 1 ELSE 0))
         + 2 * bitop(f, a \div 2, b \div 2, n - 1)

bit_or(a, b) == bitop("or", a, b, 8)
bit_and(a, b) == bitop("and", a, b, 8)
bit_xor(a, b) == bitop("xor", a, b, 8)

\* No OpCode is waiting to be executed.
NoOpCode == [tag |-> "none"]

\* The end of a step in which RNG::rand returned the bytes drawn: its result and
\* its record in trace.  The OpCode was moved into execute_opcode.
FinishDrawing(op, result, drawn) ==
    /\ outcome' = result
    /\ trace' = Append(trace, [opcode |-> op, before |-> Machine])
    /\ decoded' = NoOpCode
    /\ rng' = rng \o drawn
    /\ UNCHANGED <<overflow_checks, instruction>>

\* The end of a step that did not call RNG::rand.
Finish(op, result) == FinishDrawing(op, result, << >>)

\* A step that panics before it changes anything.
Panic(op, message) ==
    /\ Finish(op, message)
    /\ UNCHANGED machine

----------------------------------------------------------------------------
(* Emulator::goto, subroutine, ret, skip *)

goto(dest) == program_counter' = dest

subroutine(dest) ==
    /\ stack' = Append(stack, program_counter)
    /\ goto(dest)

\* ret that takes the oldest return address, not the newest.
ret_oldest_first ==
    /\ program_counter' = stack[1]
    /\ stack' = Tail(stack)

\* ret that reads the top of the stack and leaves it there.
ret_without_pop ==
    /\ program_counter' = stack[Len(stack)]
    /\ UNCHANGED stack

\* self.stack.pop().unwrap(), for a stack that is not empty
ret ==
    /\ program_counter' = stack[Len(stack)]
    /\ stack' = SubSeq(stack, 1, Len(stack) - 1)

\* skip that also adds the width of the instruction itself.
skip_two_instructions == program_counter' = (program_counter + 4) % U16

\* program_counter += 2 on a u16
skip_overflows == program_counter + 2 >= U16

skip == program_counter' = (program_counter + 2) % U16

\* if cond { self.skip() } as a whole step
SkipIf(op, cond) ==
    IF cond /\ skip_overflows /\ overflow_checks
    THEN Panic(op, PanicAddOverflow)
    ELSE /\ IF cond THEN skip ELSE UNCHANGED program_counter
         /\ Finish(op, "ok")
         /\ UNCHANGED <<memory, registers, index_register, stack,
                        delay_timer, sound_timer>>

\* RegStep that also moves the program counter on to the next instruction.
RegStep_AdvancingPc(op, regs) ==
    /\ registers' = regs
    /\ program_counter' = (program_counter + 2) % U16
    /\ Finish(op, "ok")
    /\ UNCHANGED <<memory, index_register, stack, delay_timer, sound_timer>>

\* A step that only writes the register file.
RegStep(op, regs) ==
    /\ registers' = regs
    /\ Finish(op, "ok")
    /\ UNCHANGED <<memory, index_register, program_counter, stack,
                   delay_timer, sound_timer>>

----------------------------------------------------------------------------
(* execute_opcode, one action per arm *)

\* _NativeCall that is ignored.
NativeCall_Ignored(target) ==
    /\ outcome = "ok"
    /\ Finish([tag |-> "_NativeCall", target |-> target], "ok")
    /\ UNCHANGED machine

NativeCall(target) ==
    /\ outcome = "ok"
    /\ Panic([tag |-> "_NativeCall", target |-> target], PanicNativeCall)

\* ClearScreen that does nothing, there being no screen.
ClearScreen_NoOp ==
    /\ outcome = "ok"
    /\ Finish([tag |-> "ClearScreen"], "ok")
    /\ UNCHANGED machine

ClearScreen ==
    /\ outcome = "ok"
    /\ Panic([tag |-> "ClearScreen"], PanicTodo)

\* Return that does nothing when there is no call to return from.
Return_IgnoringEmptyStack ==
    /\ outcome = "ok"
    /\ LET op == [tag |-> "Return"] IN
       IF stack = <<>>
       THEN Finish(op, "ok") /\ UNCHANGED machine
       ELSE /\ ret
            /\ Finish(op, "ok")
            /\ UNCHANGED <<memory, registers, index_register, delay_timer, sound_timer>>

Return ==
    /\ outcome = "ok"
    /\ LET op == [tag |-> "Return"] IN
       IF stack = <<>>
       THEN Panic(op, PanicUnwrapNone)
       ELSE /\ ret
            /\ Finish(op, "ok")
            /\ UNCHANGED <<memory, registers, index_register, delay_timer, sound_timer>>

Goto(target) ==
    /\ outcome = "ok"
    /\ goto(target)
    /\ Finish([tag |-> "Goto", target |-> target], "ok")
    /\ UNCHANGED <<memory, registers, index_register, stack, delay_timer, sound_timer>>

Subroutine(target) ==
    /\ outcome = "ok"
    /\ subroutine(target)
    /\ Finish([tag |-> "Subroutine", target |-> target], "ok")
    /\ UNCHANGED <<memory, registers, index_register, delay_timer, sound_timer>>

SkipNextIfRegEqualToConst(register, constant) ==
    /\ outcome = "ok"
    /\ SkipIf([tag |-> "SkipNextIfRegEqualToConst", register |-> register,
               constant |-> constant],
              get_reg(register) = constant)

SkipNextIfRegNotEqualToConst(register, constant) ==
    /\ outcome = "ok"
    /\ SkipIf([tag |-> "SkipNextIfRegNotEqualToConst", register |-> register,
               constant |-> constant],
              get_reg(register) # constant)

SkipNextIfRegEqualToReg(register_x, register_y) ==
    /\ outcome = "ok"
    /\ SkipIf([tag |-> "SkipNextIfRegEqualToReg", register_x |-> register_x,
               register_y |-> register_y],
              get_reg(register_x) = get_reg(register_y))

SkipNextIfRegNotEqualToReg(register_x, register_y) ==
    /\ outcome = "ok"
    /\ SkipIf([tag |-> "SkipNextIfRegNotEqualToReg", register_x |-> register_x,
               register_y |-> register_y],
              get_reg(register_x) # get_reg(register_y))

RegSetConst(register, constant) ==
    /\ outcome = "ok"
    /\ RegStep([tag |-> "RegSetConst", register |-> register, constant |-> constant],
               set_reg(registers, register, constant))

RegAddConst(register, constant) ==
    /\ outcome = "ok"
    /\ LET op == [tag |-> "RegAddConst", register |-> register, constant |-> constant]
           rx == get_reg(register)
       IN  IF overflow_checks /\ rx + constant >= U8
           THEN Panic(op, PanicAddOverflow)
           ELSE RegStep(op, set_reg(registers, register, (rx + constant) % U8))

RegMov(register_x, register_y) ==
    /\ outcome = "ok"
    /\ RegStep([tag |-> "RegMov", register_x |-> register_x, register_y |-> register_y],
               set_reg(registers, register_x, registers[register_y]))

\* RegBitwiseOr that also clears the flag register.
RegBitwiseOr_ClearingFlag(register_x, register_y) ==
    /\ outcome = "ok"
    /\ RegStep([tag |-> "RegBitwiseOr", register_x |-> register_x,
                register_y |-> register_y],
               set_reg(set_reg(registers, register_x,
                               bit_or(get_reg(register_x), get_reg(register_y))),
                       15, 0))

RegBitwiseOr(register_x, register_y) ==
    /\ outcome = "ok"
    /\ RegStep([tag |-> "RegBitwiseOr", register_x |-> register_x,
                register_y |-> register_y],
               set_reg(registers, register_x,
                       bit_or(get_reg(register_x), get_reg(register_y))))

RegBitwiseAnd(register_x, register_y) ==
    /\ outcome = "ok"
    /\ RegStep([tag |-> "RegBitwiseAnd", register_x |-> register_x,
                register_y |-> register_y],
               set_reg(registers, register_x,
                       bit_and(get_reg(register_x), get_reg(register_y))))

RegBitwiseXor(register_x, register_y) ==
    /\ outcome = "ok"
    /\ RegStep([tag |-> "RegBitwiseXor", register_x |-> register_x,
                register_y |-> register_y],
               set_reg(registers, register_x,
                       bit_xor(get_reg(register_x), get_reg(register_y))))

RegAdd(register_x, register_y) ==
    /\ outcome = "ok"
    /\ LET op == [tag |-> "RegAdd", register_x |-> register_x, register_y |-> register_y]
           rx == get_reg(register_x)
           ry == get_reg(register_y)
       IN  IF overflow_checks /\ rx + ry >= U8
           THEN Panic(op, PanicAddOverflow)
           ELSE RegStep(op, set_reg(registers, register_x, (rx + ry) % U8))

RegSub(register_x, register_y) ==
    /\ outcome = "ok"
    /\ LET op == [tag |-> "RegSub", register_x |-> register_x, register_y |-> register_y]
           rx == get_reg(register_x)
           ry == get_reg(register_y)
       IN  IF overflow_checks /\ rx < ry
           THEN Panic(op, PanicSubOverflow)
           ELSE RegStep(op, set_reg(registers, register_x, (rx - ry + U8) % U8))

\* RegRightShift with the flag taken from the shifted value.
RegRightShift_FlagAfterShift(register) ==
    /\ outcome = "ok"
    /\ LET rx == get_reg(register)
           shifted == set_reg(registers, register, rx \div 2)
       IN  RegStep([tag |-> "RegRightShift", register |-> register],
                   set_reg(shifted, 15, shifted[register] % 2))

RegRightShift(register) ==
    /\ outcome = "ok"
    /\ LET rx == get_reg(register)
           flagged == set_reg(registers, 15, rx % 2)
       IN  RegStep([tag |-> "RegRightShift", register |-> register],
                   set_reg(flagged, register, rx \div 2))

RegReverseSub(register_x, register_y) ==
    /\ outcome = "ok"
    /\ LET op == [tag |-> "RegReverseSub", register_x |-> register_x,
                  register_y |-> register_y]
           rx == get_reg(register_x)
           ry == get_reg(register_y)
       IN  IF overflow_checks /\ ry < rx
           THEN Panic(op, PanicSubOverflow)
           ELSE RegStep(op, set_reg(registers, register_x, (ry - rx + U8) % U8))

\* RegLeftShift with the flag taken from the shifted value.
RegLeftShift_FlagAfterShift(register) ==
    /\ outcome = "ok"
    /\ LET rx == get_reg(register)
           shifted == set_reg(registers, register, (rx * 2) % U8)
       IN  RegStep([tag |-> "RegLeftShift", register |-> register],
                   set_reg(shifted, 15, shifted[register] \div 128))

\* RegLeftShift that keeps the captured bit when the operand is the flag register.
RegLeftShift_KeepingFlag(register) ==
    /\ outcome = "ok"
    /\ LET rx == get_reg(register)
           flagged == set_reg(registers, 15, rx \div 128)
       IN  RegStep([tag |-> "RegLeftShift", register |-> register],
                   IF register = 15 THEN flagged
                   ELSE set_reg(flagged, register, (rx * 2) % U8))

RegLeftShift(register) ==
    /\ outcome = "ok"
    /\ LET rx == get_reg(register)
           flagged == set_reg(registers, 15, rx \div 128)
       IN  RegStep([tag |-> "RegLeftShift", register |-> register],
                   set_reg(flagged, register, (rx * 2) % U8))

Mem(target) ==
    /\ outcome = "ok"
    /\ index_register' = target
    /\ Finish([tag |-> "Mem", target |-> target], "ok")
    /\ UNCHANGED <<memory, registers, program_counter, stack, delay_timer, sound_timer>>

\* JumpRegZero with the destination cut to the 12 bits of an address.
JumpRegZero_TwelveBits(target) ==
    /\ outcome = "ok"
    /\ goto((get_reg(0) + target) % MemorySize)
    /\ Finish([tag |-> "JumpRegZero", target |-> target], "ok")
    /\ UNCHANGED <<memory, registers, index_register, stack, delay_timer, sound_timer>>

JumpRegZero(target) ==
    /\ outcome = "ok"
    /\ LET op == [tag |-> "JumpRegZero", target |-> target]
           dest == get_reg(0) + target
       IN  IF overflow_checks /\ dest >= U16
           THEN Panic(op, PanicAddOverflow)
           ELSE /\ goto(dest % U16)
                /\ Finish(op, "ok")
                /\ UNCHANGED <<memory, registers, index_register, stack,
                               delay_timer, sound_timer>>

\* RandToReg storing the byte as it was drawn.
RandToReg_Unmasked(register, constant, rand) ==
    /\ outcome = "ok"
    /\ registers' = set_reg(registers, register, rand)
    /\ FinishDrawing([tag |-> "RandToReg", register |-> register, constant |-> constant],
                     "ok", <<rand>>)
    /\ UNCHANGED <<memory, index_register, program_counter, stack, delay_timer, sound_timer>>

\* RandToReg writing V0 whatever register it names.
RandToReg_IntoV0(register, constant, rand) ==
    /\ outcome = "ok"
    /\ registers' = set_reg(registers, 0, bit_and(rand, constant))
    /\ FinishDrawing([tag |-> "RandToReg", register |-> register, constant |-> constant],
                     "ok", <<rand>>)
    /\ UNCHANGED <<memory, index_register, program_counter, stack, delay_timer, sound_timer>>

\* rand is the byte RNG::rand returns
RandToReg(register, constant, rand) ==
    /\ outcome = "ok"
    /\ registers' = set_reg(registers, register, bit_and(rand, constant))
    /\ FinishDrawing([tag |-> "RandToReg", register |-> register, constant |-> constant],
                     "ok", <<rand>>)
    /\ UNCHANGED <<memory, index_register, program_counter, stack, delay_timer, sound_timer>>

DisplaySprite(coord_x, coord_y, height) ==
    /\ outcome = "ok"
    /\ Panic([tag |-> "DisplaySprite", coord_x |-> coord_x, coord_y |-> coord_y,
              height |-> height], PanicTodo)

SkipNextIfRegKeyPressed(register) ==
    /\ outcome = "ok"
    /\ Panic([tag |-> "SkipNextIfRegKeyPressed", register |-> register], PanicTodo)

SkipNextIfRegKeyNotPressed(register) ==
    /\ outcome = "ok"
    /\ Panic([tag |-> "SkipNextIfRegKeyNotPressed", register |-> register], PanicTodo)

\* SetRegToDelayTimer that counts the timer down as it reads it.
SetRegToDelayTimer_Ticking(register) ==
    /\ outcome = "ok"
    /\ registers' = set_reg(registers, register, delay_timer)
    /\ delay_timer' = IF delay_timer > 0 THEN delay_timer - 1 ELSE 0
    /\ Finish([tag |-> "SetRegToDelayTimer", register |-> register], "ok")
    /\ UNCHANGED <<memory, index_register, program_counter, stack, sound_timer>>

SetRegToDelayTimer(register) ==
    /\ outcome = "ok"
    /\ RegStep([tag |-> "SetRegToDelayTimer", register |-> register],
               set_reg(registers, register, delay_timer))

SetRegToKeyPressed(register) ==
    /\ outcome = "ok"
    /\ Panic([tag |-> "SetRegToKeyPressed", register |-> register], PanicTodo)

SetDelayTimerToReg(register) ==
    /\ outcome = "ok"
    /\ delay_timer' = get_reg(register)
    /\ Finish([tag |-> "SetDelayTimerToReg", register |-> register], "ok")
    /\ UNCHANGED <<memory, registers, index_register, program_counter, stack,
                   sound_timer>>

SetSoundTimerToReg(register) ==
    /\ outcome = "ok"
    /\ sound_timer' = get_reg(register)
    /\ Finish([tag |-> "SetSoundTimerToReg", register |-> register], "ok")
    /\ UNCHANGED <<memory, registers, index_register, program_counter, stack,
                   delay_timer>>

\* MemAddReg keeping the index register within the twelve bits of an address.
MemAddReg_TwelveBits(register) ==
    /\ outcome = "ok"
    /\ index_register' = (index_register + get_reg(register)) % MemorySize
    /\ Finish([tag |-> "MemAddReg", register |-> register], "ok")
    /\ UNCHANGED <<memory, registers, program_counter, stack, delay_timer, sound_timer>>

MemAddReg(register) ==
    /\ outcome = "ok"
    /\ LET op == [tag |-> "MemAddReg", register |-> register]
           sum == index_register + get_reg(register)
       IN  IF overflow_checks /\ sum >= U16
           THEN Panic(op, PanicAddOverflow)
           ELSE /\ index_register' = sum % U16
                /\ Finish(op, "ok")
                /\ UNCHANGED <<memory, registers, program_counter, stack,
                               delay_timer, sound_timer>>

MemMoveToRegChar(register) ==
    /\ outcome = "ok"
    /\ Panic([tag |-> "MemMoveToRegChar", register |-> register], PanicTodo)

StoreBCD(register) ==
    /\ outcome = "ok"
    /\ Panic([tag |-> "StoreBCD", register |-> register], PanicTodo)

\* for i in i..=last { memory[index_register + i] = get_reg(i) }, up to the
\* first index out of the array
\* The loop over 0..register, the last register left out.
RECURSIVE dump_loop_exclusive(_, _, _)
dump_loop_exclusive(m, i, last) ==
    IF i >= last \/ index_register + i >= MemorySize THEN m
    ELSE dump_loop_exclusive(mem_set(m, index_register + i, get_reg(i)), i + 1, last)

\* The loop with addresses taken modulo the size of the memory.
RECURSIVE dump_loop_wrapping(_, _, _)
dump_loop_wrapping(m, i, last) ==
    IF i > last THEN m
    ELSE dump_loop_wrapping(mem_set(m, (index_register + i) % MemorySize, get_reg(i)),
                            i + 1, last)

RECURSIVE dump_loop(_, _, _)
dump_loop(m, i, last) ==
    IF i > last \/ index_register + i >= MemorySize THEN m
    ELSE dump_loop(mem_set(m, index_register + i, get_reg(i)), i + 1, last)

RegDump(register) ==
    /\ outcome = "ok"
    /\ memory' = dump_loop(memory, 0, register)
    /\ Finish([tag |-> "RegDump", register |-> register],
              IF index_register + register >= MemorySize THEN PanicIndex ELSE "ok")
    /\ UNCHANGED <<registers, index_register, program_counter, stack,
                   delay_timer, sound_timer>>

\* The loop reading each register from the cell after its own.
RECURSIVE load_loop_next_cell(_, _, _)
load_loop_next_cell(regs, i, last) ==
    IF i > last \/ index_register + i >= MemorySize THEN regs
    ELSE load_loop_next_cell(set_reg(regs, i, mem_get(memory, index_register + i + 1)),
                             i + 1, last)

\* for i in i..=last { set_reg(i, memory[index_register + i]) }, up to the
\* first index out of the array
RECURSIVE load_loop(_, _, _)
load_loop(regs, i, last) ==
    IF i > last \/ index_register + i >= MemorySize THEN regs
    ELSE load_loop(set_reg(regs, i, mem_get(memory, index_register + i)), i + 1, last)

\* RegLoad that leaves the index register after the last cell it read.
RegLoad_AdvancingIndex(register) ==
    /\ outcome = "ok"
    /\ registers' = load_loop(registers, 0, register)
    /\ index_register' = (index_register + register + 1) % U16
    /\ Finish([tag |-> "RegLoad", register |-> register],
              IF index_register + register >= MemorySize THEN PanicIndex ELSE "ok")
    /\ UNCHANGED <<memory, program_counter, stack, delay_timer, sound_timer>>

RegLoad(register) ==
    /\ outcome = "ok"
    /\ registers' = load_loop(registers, 0, register)
    /\ Finish([tag |-> "RegLoad", register |-> register],
              IF index_register + register >= MemorySize THEN PanicIndex ELSE "ok")
    /\ UNCHANGED <<memory, index_register, program_counter, stack,
                   delay_timer, sound_timer>>

----------------------------------------------------------------------------
(* The decoder: impl From<(u8, u8)> for OpCode *)

\* ((first_byte as u16) << 8) | second_byte as u16
combine(first_byte, second_byte) == bitop("or", (first_byte * 256) % U16, second_byte, 16)

\* What from returns when it panics instead of returning an OpCode.
OpcodeNotFound == [tag |-> "panic", message |-> PanicOpcodeNotFound]

\* match first_digit { ... }
match_first_digit(first_digit, second_digit, third_digit, fourth_digit, second_byte, target) ==
    CASE first_digit = 0 ->
            (CASE second_byte = 224 -> [tag |-> "ClearScreen"]
               [] second_byte = 238 -> [tag |-> "Return"]
               [] OTHER -> [tag |-> "_NativeCall", target |-> target])
      [] first_digit = 1 -> [tag |-> "Goto", target |-> target]
      [] first_digit = 2 -> [tag |-> "Subroutine", target |-> target]
      [] first_digit = 3 -> [tag |-> "SkipNextIfRegEqualToConst", register |-> second_digit,
                             constant |-> second_byte]
      [] first_digit = 4 -> [tag |-> "SkipNextIfRegNotEqualToConst", register |-> second_digit,
                             constant |-> second_byte]
      [] first_digit = 5 -> [tag |-> "SkipNextIfRegEqualToReg", register_x |-> second_digit,
                             register_y |-> third_digit]
      [] first_digit = 6 -> [tag |-> "RegSetConst", register |-> second_digit,
                             constant |-> second_byte]
      [] first_digit = 7 -> [tag |-> "RegAddConst", register |-> second_digit,
                             constant |-> second_byte]
      [] first_digit = 8 ->
            (CASE fourth_digit = 0 -> [tag |-> "RegMov", register_x |-> second_digit,
                                       register_y |-> third_digit]
               [] fourth_digit = 1 -> [tag |-> "RegBitwiseOr", register_x |-> second_digit,
                                       register_y |-> third_digit]
               [] fourth_digit = 2 -> [tag |-> "RegBitwiseAnd", register_x |-> second_digit,
                                       register_y |-> third_digit]
               [] fourth_digit = 3 -> [tag |-> "RegBitwiseXor", register_x |-> second_digit,
                                       register_y |-> third_digit]
               [] fourth_digit = 4 -> [tag |-> "RegAdd", register_x |-> second_digit,
                                       register_y |-> third_digit]
               [] fourth_digit = 5 -> [tag |-> "RegSub", register_x |-> second_digit,
                                       register_y |-> third_digit]
               [] fourth_digit = 6 -> [tag |-> "RegRightShift", register |-> second_digit]
               [] fourth_digit = 7 -> [tag |-> "RegReverseSub", register_x |-> second_digit,
                                       register_y |-> third_digit]
               [] fourth_digit = 14 -> [tag |-> "RegLeftShift", register |-> second_digit]
               [] OTHER -> OpcodeNotFound)
      [] first_digit = 9 -> [tag |-> "SkipNextIfRegNotEqualToReg", register_x |-> second_digit,
                             register_y |-> third_digit]
      [] first_digit = 10 -> [tag |-> "Mem", target |-> target]
      [] first_digit = 11 -> [tag |-> "JumpRegZero", target |-> target]
      [] first_digit = 12 -> [tag |-> "RandToReg", register |-> second_digit,
                              constant |-> second_byte]
      [] first_digit = 13 -> [tag |-> "DisplaySprite", coord_x |-> second_digit,
                              coord_y |-> third_digit, height |-> fourth_digit]
      [] first_digit = 14 ->
            (CASE second_byte = 158 -> [tag |-> "SkipNextIfRegKeyPressed",
                                        register |-> second_digit]
               [] second_byte = 161 -> [tag |-> "SkipNextIfRegKeyNotPressed",
                                        register |-> second_digit]
               [] OTHER -> OpcodeNotFound)
      [] first_digit = 15 ->
            (CASE second_byte = 7 -> [tag |-> "SetRegToDelayTimer", register |-> second_digit]
               [] second_byte = 10 -> [tag |-> "SetRegToKeyPressed", register |-> second_digit]
               [] second_byte = 21 -> [tag |-> "SetDelayTimerToReg", register |-> second_digit]
               [] second_byte = 24 -> [tag |-> "SetSoundTimerToReg", register |-> second_digit]
               [] second_byte = 30 -> [tag |-> "MemAddReg", register |-> second_digit]
               [] second_byte = 41 -> [tag |-> "MemMoveToRegChar", register |-> second_digit]
               [] second_byte = 51 -> [tag |-> "StoreBCD", register |-> second_digit]
               [] second_byte = 85 -> [tag |-> "RegDump", register |-> second_digit]
               [] second_byte = 101 -> [tag |-> "RegLoad", register |-> second_digit]
               [] OTHER -> OpcodeNotFound)

\* The decoder with the two register digits taken in the other order.
from_registers_swapped(first_byte, second_byte) ==
    match_first_digit(first_byte \div 16, second_byte \div 16, first_byte % 16,
                      second_byte % 16, second_byte, combine(first_byte % 16, second_byte))

\* The decoder accepting 5XY0 only in class 5.
from_strict_class_five(first_byte, second_byte) ==
    IF first_byte \div 16 = 5 /\ second_byte % 16 # 0 THEN OpcodeNotFound
    ELSE match_first_digit(first_byte \div 16, first_byte % 16, second_byte \div 16,
                           second_byte % 16, second_byte,
                           combine(first_byte % 16, second_byte))

\* The decoder with _NativeCall absorbing the unknown sub-opcodes of every class.
from_unknown_as_native_call(first_byte, second_byte) ==
    LET op == match_first_digit(first_byte \div 16, first_byte % 16, second_byte \div 16,
                                second_byte % 16, second_byte,
                                combine(first_byte % 16, second_byte))
    IN  IF op.tag = "panic"
        THEN [tag |-> "_NativeCall", target |-> combine(first_byte % 16, second_byte)]
        ELSE op

\* The decoder with the target taken from the whole instruction word.
from_target_whole_word(first_byte, second_byte) ==
    match_first_digit(first_byte \div 16, first_byte % 16, second_byte \div 16,
                      second_byte % 16, second_byte, combine(first_byte, second_byte))

\* OpCode::from((first_byte, second_byte))
from(first_byte, second_byte) ==
    match_first_digit(first_byte \div 16, first_byte % 16, second_byte \div 16,
                      second_byte % 16, second_byte, combine(first_byte % 16, second_byte))

\* let op = OpCode::from((first_byte, second_byte)), before anything was executed
Decode(first_byte, second_byte) ==
    /\ outcome = "ok"
    /\ instruction = << >>
    /\ instruction' = <<first_byte, second_byte>>
    /\ LET op == from(first_byte, second_byte)
       IN  IF op.tag = "panic"
           THEN outcome' = op.message /\ UNCHANGED decoded
           ELSE decoded' = op /\ UNCHANGED outcome
    /\ UNCHANGED <<machine, overflow_checks, trace, rng>>

\* match opcode { ... }: each arm is the action of that name
execute_opcode(op, rand) ==
    CASE op.tag = "_NativeCall" -> NativeCall(op.target)
      [] op.tag = "ClearScreen" -> ClearScreen
      [] op.tag = "Return" -> Return
      [] op.tag = "Goto" -> Goto(op.target)
      [] op.tag = "Subroutine" -> Subroutine(op.target)
      [] op.tag = "SkipNextIfRegEqualToConst" ->
            SkipNextIfRegEqualToConst(op.register, op.constant)
      [] op.tag = "SkipNextIfRegNotEqualToConst" ->
            SkipNextIfRegNotEqualToConst(op.register, op.constant)
      [] op.tag = "SkipNextIfRegEqualToReg" ->
            SkipNextIfRegEqualToReg(op.register_x, op.register_y)
      [] op.tag = "RegSetConst" -> RegSetConst(op.register, op.constant)
      [] op.tag = "RegAddConst" -> RegAddConst(op.register, op.constant)
      [] op.tag = "RegMov" -> RegMov(op.register_x, op.register_y)
      [] op.tag = "RegBitwiseOr" -> RegBitwiseOr(op.register_x, op.register_y)
      [] op.tag = "RegBitwiseAnd" -> RegBitwiseAnd(op.register_x, op.register_y)
      [] op.tag = "RegBitwiseXor" -> RegBitwiseXor(op.register_x, op.register_y)
      [] op.tag = "RegAdd" -> RegAdd(op.register_x, op.register_y)
      [] op.tag = "RegSub" -> RegSub(op.register_x, op.register_y)
      [] op.tag = "RegRightShift" -> RegRightShift(op.register)
      [] op.tag = "RegReverseSub" -> RegReverseSub(op.register_x, op.register_y)
      [] op.tag = "RegLeftShift" -> RegLeftShift(op.register)
      [] op.tag = "SkipNextIfRegNotEqualToReg" ->
            SkipNextIfRegNotEqualToReg(op.register_x, op.register_y)
      [] op.tag = "Mem" -> Mem(op.target)
      [] op.tag = "JumpRegZero" -> JumpRegZero(op.target)
      [] op.tag = "RandToReg" -> RandToReg(op.register, op.constant, rand)
      [] op.tag = "DisplaySprite" -> DisplaySprite(op.coord_x, op.coord_y, op.height)
      [] op.tag = "SkipNextIfRegKeyPressed" -> SkipNextIfRegKeyPressed(op.register)
      [] op.tag = "SkipNextIfRegKeyNotPressed" -> SkipNextIfRegKeyNotPressed(op.register)
      [] op.tag = "SetRegToDelayTimer" -> SetRegToDelayTimer(op.register)
      [] op.tag = "SetRegToKeyPressed" -> SetRegToKeyPressed(op.register)
      [] op.tag = "SetDelayTimerToReg" -> SetDelayTimerToReg(op.register)
      [] op.tag = "SetSoundTimerToReg" -> SetSoundTimerToReg(op.register)
      [] op.tag = "MemAddReg" -> MemAddReg(op.register)
      [] op.tag = "MemMoveToRegChar" -> MemMoveToRegChar(op.register)
      [] op.tag = "StoreBCD" -> StoreBCD(op.register)
      [] op.tag = "RegDump" -> RegDump(op.register)
      [] op.tag = "RegLoad" -> RegLoad(op.register)

\* emulator.execute_opcode(op), with the OpCode that was decoded
Execute(rand) ==
    /\ decoded # NoOpCode
    /\ execute_opcode(decoded, rand)

----------------------------------------------------------------------------
(* Initial states *)

\* Emulator::default()
Default ==
    /\ memory = << >>
    /\ registers = [i \in Reg |-> 0]
    /\ index_register = 0
    /\ program_counter = 0
    /\ stack = << >>
    /\ delay_timer = 0
    /\ sound_timer = 0

Start ==
    /\ overflow_checks \in BOOLEAN
    /\ outcome = "ok"
    /\ trace = << >>
    /\ instruction = << >>
    /\ decoded = NoOpCode
    /\ rng = << >>

Init == Default /\ Start

\* A register file with V0 = a, V1 = b, VF = f and the others all different.
RegFile(a, b, f) ==
    [i \in Reg |-> IF i = 0 THEN a ELSE IF i = 1 THEN b ELSE IF i = 15 THEN f ELSE 16 + i]

ByteSamples == {0, 1, 5, 100, 128, 137, 200, 255}
RegSamples == {0, 1, 15}
Targets == {4, 768}

\* Twelve nested calls deep.
FullStack == [i \in 1..StackCapacity |-> 512 + 2 * i]

\* The register file holds any V0, sampled V1 and VF; the rest is as constructed.
InitAlu ==
    /\ memory = << >>
    /\ registers \in {RegFile(a, b, f) : a \in Byte, b \in ByteSamples, f \in {0, 171}}
    /\ index_register = 0
    /\ program_counter = 512
    /\ stack = << >>
    /\ delay_timer = 0
    /\ sound_timer = 0
    /\ Start

\* The program counter and the stack vary.
InitStack ==
    /\ memory = << >>
    /\ registers = [i \in Reg |-> 0]
    /\ index_register = 0
    /\ program_counter \in {0, 512}
    /\ stack \in {<< >>, <<514>>, FullStack}
    /\ delay_timer = 0
    /\ sound_timer = 0
    /\ Start

\* The program counter and the compared registers vary; no field is at its default.
\* program_counter is a pub u16 that the caller advances and that every taken
\* skip raises by 2, so it can hold any u16 value, the top of the range included.
InitSkip ==
    /\ memory = (768 :> 7)
    /\ registers \in {RegFile(a, b, f) : a \in {0, 4, 255}, b \in {0, 4, 255}, f \in {0, 4}}
    /\ index_register = 768
    /\ program_counter \in {0, 512, 4094, 65532, 65534, 65535}
    /\ stack \in {<< >>, <<514>>}
    /\ delay_timer = 9
    /\ sound_timer = 3
    /\ Start

\* Register 0 holds any byte; the program counter and the stack vary.
InitJump ==
    /\ memory = (768 :> 7)
    /\ registers \in {RegFile(a, 6, 1) : a \in Byte}
    /\ index_register = 768
    /\ program_counter \in {0, 512}
    /\ stack \in {<< >>, <<514>>}
    /\ delay_timer = 9
    /\ sound_timer = 3
    /\ Start

\* No field is at its default; registers, program counter, stack and index vary.
InitStep ==
    /\ memory = (768 :> 7 @@ 769 :> 9)
    /\ registers \in {RegFile(a, b, 1) : a \in {0, 5, 200}, b \in {5, 100}}
    /\ index_register \in {768, 4090}
    /\ program_counter \in {512, 4094}
    /\ stack \in {<< >>, <<514>>}
    /\ delay_timer = 9
    /\ sound_timer = 3
    /\ Start

\* Some cells already hold data, some registers are zero, and the index register
\* is at the bottom, in the middle, near the top and past the end of the memory.
InitMem ==
    /\ memory = (0 :> 3 @@ 2 :> 4 @@ 768 :> 7 @@ 770 :> 9 @@ 4095 :> 11)
    /\ registers \in {RegFile(a, 6, f) : a \in {0, 200}, f \in {0, 1}}
    /\ index_register \in {0, 768, 4080, 4090, 4095, 4096}
    /\ program_counter = 512
    /\ stack = <<514>>
    /\ delay_timer = 9
    /\ sound_timer = 3
    /\ Start

\* Three machines a program has run on for a while: one outside any subroutine
\* with the index register near the top of the memory, one inside a subroutine
\* with the program counter at the top of its range, one two calls deep with
\* the index register at the top of its range.
InitDecode ==
    /\ memory = (768 :> 7 @@ 769 :> 9)
    /\ \/ /\ registers = RegFile(200, 100, 1)
          /\ index_register = 4090
          /\ program_counter = 512
          /\ stack = << >>
       \/ /\ registers = RegFile(5, 5, 0)
          /\ index_register = 768
          /\ program_counter = 65534
          /\ stack = <<514>>
       \/ /\ registers = RegFile(1, 255, 1)
          /\ index_register = 65535
          /\ program_counter = 512
          /\ stack = <<514, 516>>
    /\ delay_timer = 9
    /\ sound_timer = 3
    /\ Start

\* Registers that already hold data; nothing was drawn yet.
InitRand ==
    /\ memory = (768 :> 7)
    /\ registers \in {RegFile(a, 6, f) : a \in {0, 200}, f \in {0, 1}}
    /\ index_register = 768
    /\ program_counter = 512
    /\ stack = <<514>>
    /\ delay_timer = 9
    /\ sound_timer = 3
    /\ Start

\* The index register at the bottom and the top of the memory and of its own
\* range; VF set and clear.
InitIndex ==
    /\ memory = (768 :> 7)
    /\ registers \in {RegFile(a, 6, f) : a \in ByteSamples, f \in {0, 1}}
    /\ index_register \in {0, 4000, 4095, 65400, 65535}
    /\ program_counter = 512
    /\ stack = <<514>>
    /\ delay_timer = 9
    /\ sound_timer = 3
    /\ Start

\* The flag register holding any byte.
InitFlag ==
    /\ memory = (768 :> 7)
    /\ registers \in {RegFile(a, 6, f) : a \in {0, 5}, f \in Byte}
    /\ index_register = 768
    /\ program_counter = 512
    /\ stack = <<514>>
    /\ delay_timer = 9
    /\ sound_timer = 3
    /\ Start

\* An emulator outside any subroutine whose other fields already hold data.
InitFrame ==
    /\ memory = (768 :> 7)
    /\ registers \in {RegFile(a, 6, 1) : a \in {5, 200}}
    /\ index_register \in {768, 4090}
    /\ program_counter = 512
    /\ stack = << >>
    /\ delay_timer = 9
    /\ sound_timer = 3
    /\ Start

----------------------------------------------------------------------------
(* Specifications *)

Once == trace = << >>
More(bound) == Len(trace) < bound

\* Any instructions, from the state as constructed.
Next ==
    \/ More(MaxSteps) /\ \E t \in Targets : NativeCall(t)
    \/ More(MaxSteps) /\ ClearScreen
    \/ More(MaxSteps) /\ Return
    \/ More(MaxSteps) /\ \E t \in Targets : Goto(t)
    \/ More(MaxSteps) /\ \E t \in Targets : Subroutine(t)
    \/ More(MaxSteps) /\ \E x \in RegSamples, nn \in {0, 200} : SkipNextIfRegEqualToConst(x, nn)
    \/ More(MaxSteps) /\ \E x \in RegSamples, nn \in {0, 200} : SkipNextIfRegNotEqualToConst(x, nn)
    \/ More(MaxSteps) /\ \E x \in RegSamples, y \in RegSamples : SkipNextIfRegEqualToReg(x, y)
    \/ More(MaxSteps) /\ \E x \in RegSamples, nn \in {1, 200} : RegSetConst(x, nn)
    \/ More(MaxSteps) /\ \E x \in RegSamples, nn \in {1, 200} : RegAddConst(x, nn)
    \/ More(MaxSteps) /\ \E x \in RegSamples, y \in RegSamples : RegMov(x, y)
    \/ More(MaxSteps) /\ \E x \in RegSamples, y \in RegSamples : RegBitwiseOr(x, y)
    \/ More(MaxSteps) /\ \E x \in RegSamples, y \in RegSamples : RegBitwiseAnd(x, y)
    \/ More(MaxSteps) /\ \E x \in RegSamples, y \in RegSamples : RegBitwiseXor(x, y)
    \/ More(MaxSteps) /\ \E x \in RegSamples, y \in RegSamples : RegAdd(x, y)
    \/ More(MaxSteps) /\ \E x \in RegSamples, y \in RegSamples : RegSub(x, y)
    \/ More(MaxSteps) /\ \E x \in RegSamples : RegRightShift(x)
    \/ More(MaxSteps) /\ \E x \in RegSamples, y \in RegSamples : RegReverseSub(x, y)
    \/ More(MaxSteps) /\ \E x \in RegSamples : RegLeftShift(x)
    \/ More(MaxSteps) /\ \E x \in RegSamples, y \in RegSamples : SkipNextIfRegNotEqualToReg(x, y)
    \/ More(MaxSteps) /\ \E t \in {768, 4094} : Mem(t)
    \/ More(MaxSteps) /\ \E t \in Targets : JumpRegZero(t)
    \/ More(MaxSteps) /\ \E x \in RegSamples, nn \in {0, 54, 255}, r \in {0, 22, 255} : RandToReg(x, nn, r)
    \/ More(MaxSteps) /\ \E x \in {0}, y \in {1}, n \in {0, 5} : DisplaySprite(x, y, n)
    \/ More(MaxSteps) /\ \E x \in RegSamples : SkipNextIfRegKeyPressed(x)
    \/ More(MaxSteps) /\ \E x \in RegSamples : SkipNextIfRegKeyNotPressed(x)
    \/ More(MaxSteps) /\ \E x \in RegSamples : SetRegToDelayTimer(x)
    \/ More(MaxSteps) /\ \E x \in RegSamples : SetRegToKeyPressed(x)
    \/ More(MaxSteps) /\ \E x \in RegSamples : SetDelayTimerToReg(x)
    \/ More(MaxSteps) /\ \E x \in RegSamples : SetSoundTimerToReg(x)
    \/ More(MaxSteps) /\ \E x \in RegSamples : MemAddReg(x)
    \/ More(MaxSteps) /\ \E x \in RegSamples : MemMoveToRegChar(x)
    \/ More(MaxSteps) /\ \E x \in RegSamples : StoreBCD(x)
    \/ More(MaxSteps) /\ \E x \in RegSamples : RegDump(x)
    \/ More(MaxSteps) /\ \E x \in RegSamples : RegLoad(x)

Spec == Init /\ [][Next]_vars

\* One arithmetic or shift instruction on any register values.
NextAlu ==
    \/ Once /\ \E x \in RegSamples, y \in RegSamples : RegAdd(x, y)
    \/ Once /\ \E x \in RegSamples, y \in RegSamples : RegSub(x, y)
    \/ Once /\ \E x \in RegSamples, y \in RegSamples : RegReverseSub(x, y)
    \/ Once /\ \E x \in RegSamples : RegRightShift(x)
    \/ Once /\ \E x \in RegSamples : RegLeftShift(x)
    \/ Once /\ \E x \in RegSamples, nn \in ByteSamples : RegAddConst(x, nn)

SpecAlu == InitAlu /\ [][NextAlu]_vars

\* Sequences of jumps, calls and returns.
NextStack ==
    \/ More(MaxStackSteps) /\ \E t \in Targets : Goto(t)
    \/ More(MaxStackSteps) /\ \E t \in Targets : Subroutine(t)
    \/ More(MaxStackSteps) /\ Return

SpecStack == InitStack /\ [][NextStack]_vars

\* One conditional skip.
NextSkip ==
    \/ Once /\ \E x \in RegSamples, nn \in {0, 4, 255} : SkipNextIfRegEqualToConst(x, nn)
    \/ Once /\ \E x \in RegSamples, nn \in {0, 4, 255} : SkipNextIfRegNotEqualToConst(x, nn)
    \/ Once /\ \E x \in RegSamples, y \in RegSamples : SkipNextIfRegEqualToReg(x, y)
    \/ Once /\ \E x \in RegSamples, y \in RegSamples : SkipNextIfRegNotEqualToReg(x, y)

SpecSkip == InitSkip /\ [][NextSkip]_vars

\* The 12-bit jump targets the decoder can produce, sampled.
JumpTargets == {0, 4, 564, 4095}

\* One jump.
NextJump ==
    \/ Once /\ \E t \in JumpTargets : Goto(t)
    \/ Once /\ \E t \in JumpTargets : JumpRegZero(t)

SpecJump == InitJump /\ [][NextJump]_vars

\* One instruction of any kind.
NextStep ==
    \/ Once /\ \E t \in Targets : NativeCall(t)
    \/ Once /\ ClearScreen
    \/ Once /\ Return
    \/ Once /\ \E t \in Targets : Goto(t)
    \/ Once /\ \E t \in Targets : Subroutine(t)
    \/ Once /\ \E x \in RegSamples, nn \in {0, 200} : SkipNextIfRegEqualToConst(x, nn)
    \/ Once /\ \E x \in RegSamples, nn \in {0, 200} : SkipNextIfRegNotEqualToConst(x, nn)
    \/ Once /\ \E x \in RegSamples, y \in RegSamples : SkipNextIfRegEqualToReg(x, y)
    \/ Once /\ \E x \in RegSamples, nn \in {1, 200} : RegSetConst(x, nn)
    \/ Once /\ \E x \in RegSamples, nn \in {1, 200} : RegAddConst(x, nn)
    \/ Once /\ \E x \in RegSamples, y \in RegSamples : RegMov(x, y)
    \/ Once /\ \E x \in RegSamples, y \in RegSamples : RegBitwiseOr(x, y)
    \/ Once /\ \E x \in RegSamples, y \in RegSamples : RegBitwiseAnd(x, y)
    \/ Once /\ \E x \in RegSamples, y \in RegSamples : RegBitwiseXor(x, y)
    \/ Once /\ \E x \in RegSamples, y \in RegSamples : RegAdd(x, y)
    \/ Once /\ \E x \in RegSamples, y \in RegSamples : RegSub(x, y)
    \/ Once /\ \E x \in RegSamples : RegRightShift(x)
    \/ Once /\ \E x \in RegSamples, y \in RegSamples : RegReverseSub(x, y)
    \/ Once /\ \E x \in RegSamples : RegLeftShift(x)
    \/ Once /\ \E x \in RegSamples, y \in RegSamples : SkipNextIfRegNotEqualToReg(x, y)
    \/ Once /\ \E t \in {768, 4094} : Mem(t)
    \/ Once /\ \E t \in Targets : JumpRegZero(t)
    \/ Once /\ \E x \in RegSamples, nn \in {0, 54, 255}, r \in {0, 22, 255} : RandToReg(x, nn, r)
    \/ Once /\ \E x \in {0}, y \in {1}, n \in {0, 5} : DisplaySprite(x, y, n)
    \/ Once /\ \E x \in RegSamples : SkipNextIfRegKeyPressed(x)
    \/ Once /\ \E x \in RegSamples : SkipNextIfRegKeyNotPressed(x)
    \/ Once /\ \E x \in RegSamples : SetRegToDelayTimer(x)
    \/ Once /\ \E x \in RegSamples : SetRegToKeyPressed(x)
    \/ Once /\ \E x \in RegSamples : SetDelayTimerToReg(x)
    \/ Once /\ \E x \in RegSamples : SetSoundTimerToReg(x)
    \/ Once /\ \E x \in RegSamples : MemAddReg(x)
    \/ Once /\ \E x \in RegSamples : MemMoveToRegChar(x)
    \/ Once /\ \E x \in RegSamples : StoreBCD(x)
    \/ Once /\ \E x \in RegSamples : RegDump(x)
    \/ Once /\ \E x \in RegSamples : RegLoad(x)

SpecStep == InitStep /\ [][NextStep]_vars

\* Register dumps and loads, with registers overwritten in between.
DumpRegs == {0, 2, 15}
NextMem ==
    \/ More(MaxMemSteps) /\ \E x \in DumpRegs : RegDump(x)
    \/ More(MaxMemSteps) /\ \E x \in DumpRegs : RegLoad(x)
    \/ More(MaxMemSteps) /\ \E x \in {0, 2} : RegSetConst(x, 9)

SpecMem == InitMem /\ [][NextMem]_vars

\* Any one instruction, decoded and then executed.
RandSamples == {0, 22, 255}
NextDecode ==
    \/ instruction = << >> /\ \E first_byte \in Byte, second_byte \in Byte :
           Decode(first_byte, second_byte)
    \/ \E rand \in RandSamples : Execute(rand)

SpecDecode == InitDecode /\ [][NextDecode]_vars

\* One RandToReg, with every byte the generator can return.
Masks == {0, 54, 170, 255}
NextRand ==
    \/ Once /\ \E x \in RegSamples, nn \in Masks, r \in Byte : RandToReg(x, nn, r)

SpecRand == InitRand /\ [][NextRand]_vars

\* Timer reads and writes from a new emulator, among other instructions.
TimerRegs == {0, 1}
NextTimer ==
    \/ More(MaxTimerSteps) /\ \E x \in TimerRegs, nn \in {7, 200} : RegSetConst(x, nn)
    \/ More(MaxTimerSteps) /\ \E x \in TimerRegs : SetRegToDelayTimer(x)
    \/ More(MaxTimerSteps) /\ \E x \in TimerRegs : SetDelayTimerToReg(x)
    \/ More(MaxTimerSteps) /\ \E x \in TimerRegs : SetSoundTimerToReg(x)
    \/ More(MaxTimerSteps) /\ RegAddConst(0, 100)
    \/ More(MaxTimerSteps) /\ Subroutine(768)
    \/ More(MaxTimerSteps) /\ Return

SpecTimer == Init /\ [][NextTimer]_vars

\* One instruction that writes the index register.
NextIndex ==
    \/ Once /\ \E t \in JumpTargets : Mem(t)
    \/ Once /\ \E x \in RegSamples : MemAddReg(x)

SpecIndex == InitIndex /\ [][NextIndex]_vars

\* One copy or bitwise instruction.
NextBits ==
    \/ Once /\ \E x \in RegSamples, nn \in ByteSamples : RegSetConst(x, nn)
    \/ Once /\ \E x \in RegSamples, y \in RegSamples : RegMov(x, y)
    \/ Once /\ \E x \in RegSamples, y \in RegSamples : RegBitwiseOr(x, y)
    \/ Once /\ \E x \in RegSamples, y \in RegSamples : RegBitwiseAnd(x, y)
    \/ Once /\ \E x \in RegSamples, y \in RegSamples : RegBitwiseXor(x, y)

SpecBits == InitAlu /\ [][NextBits]_vars

\* test_rand2reg: RandToReg with mask 54 into V0, then into V1, on a new
\* emulator, with every pair of bytes the generator can return.
NextRandTwice ==
    \/ Once /\ \E r \in Byte : RandToReg(0, 54, r)
    \/ Len(trace) = 1 /\ \E r \in Byte : RandToReg(1, 54, r)

SpecRandTwice == Init /\ [][NextRandTwice]_vars

\* One shift, of the flag register or of another.
ShiftRegs == {0, 15}
NextFlagShift ==
    \/ Once /\ \E x \in ShiftRegs : RegRightShift(x)
    \/ Once /\ \E x \in ShiftRegs : RegLeftShift(x)

SpecFlagShift == InitFlag /\ [][NextFlagShift]_vars

\* Sequences of instructions of every kind.
FrameRegs == {0, 1}
NextFrame ==
    \/ More(MaxFrameSteps) /\ NativeCall(4)
    \/ More(MaxFrameSteps) /\ ClearScreen
    \/ More(MaxFrameSteps) /\ Return
    \/ More(MaxFrameSteps) /\ Goto(768)
    \/ More(MaxFrameSteps) /\ Subroutine(768)
    \/ More(MaxFrameSteps) /\ \E x \in FrameRegs : SkipNextIfRegEqualToConst(x, 6)
    \/ More(MaxFrameSteps) /\ \E x \in FrameRegs : SkipNextIfRegNotEqualToConst(x, 6)
    \/ More(MaxFrameSteps) /\ \E y \in FrameRegs : SkipNextIfRegEqualToReg(1, y)
    \/ More(MaxFrameSteps) /\ \E x \in FrameRegs : RegSetConst(x, 200)
    \/ More(MaxFrameSteps) /\ \E x \in FrameRegs : RegAddConst(x, 100)
    \/ More(MaxFrameSteps) /\ RegMov(0, 1)
    \/ More(MaxFrameSteps) /\ RegBitwiseOr(0, 1)
    \/ More(MaxFrameSteps) /\ RegBitwiseAnd(0, 1)
    \/ More(MaxFrameSteps) /\ RegBitwiseXor(0, 1)
    \/ More(MaxFrameSteps) /\ RegAdd(0, 1)
    \/ More(MaxFrameSteps) /\ RegSub(0, 1)
    \/ More(MaxFrameSteps) /\ \E x \in FrameRegs : RegRightShift(x)
    \/ More(MaxFrameSteps) /\ RegReverseSub(0, 1)
    \/ More(MaxFrameSteps) /\ \E x \in FrameRegs : RegLeftShift(x)
    \/ More(MaxFrameSteps) /\ \E y \in FrameRegs : SkipNextIfRegNotEqualToReg(1, y)
    \/ More(MaxFrameSteps) /\ \E t \in {4, 4094} : Mem(t)
    \/ More(MaxFrameSteps) /\ JumpRegZero(4)
    \/ More(MaxFrameSteps) /\ \E r \in {22, 255} : RandToReg(0, 54, r)
    \/ More(MaxFrameSteps) /\ DisplaySprite(0, 1, 5)
    \/ More(MaxFrameSteps) /\ SkipNextIfRegKeyPressed(0)
    \/ More(MaxFrameSteps) /\ SkipNextIfRegKeyNotPressed(0)
    \/ More(MaxFrameSteps) /\ SetRegToDelayTimer(0)
    \/ More(MaxFrameSteps) /\ SetRegToKeyPressed(0)
    \/ More(MaxFrameSteps) /\ \E x \in FrameRegs : SetDelayTimerToReg(x)
    \/ More(MaxFrameSteps) /\ \E x \in FrameRegs : SetSoundTimerToReg(x)
    \/ More(MaxFrameSteps) /\ \E x \in FrameRegs : MemAddReg(x)
    \/ More(MaxFrameSteps) /\ MemMoveToRegChar(0)
    \/ More(MaxFrameSteps) /\ StoreBCD(0)
    \/ More(MaxFrameSteps) /\ \E x \in {1, 15} : RegDump(x)
    \/ More(MaxFrameSteps) /\ \E x \in {1, 15} : RegLoad(x)

SpecFrame == InitFrame /\ [][NextFrame]_vars

----------------------------------------------------------------------------
(* Properties *)

\* The last step taken: its opcode and the machine before it.
Stepped == trace # << >>
Last == trace[Len(trace)]
Did(tag) == Stepped /\ Last.opcode.tag = tag
Before == Last.before

\* A typed fault returned to the caller would be one of these results.
TypedFaults == {"DecodeError", "StackUnderflow", "StackOverflow", "MemoryOutOfBounds",
                "UnimplementedOperation", "IllegalNativeCall"}

\* Everything but the register file is as before the last step.
OnlyRegistersChanged ==
    /\ memory = Before.memory
    /\ index_register = Before.index_register
    /\ program_counter = Before.program_counter
    /\ stack = Before.stack
    /\ delay_timer = Before.delay_timer
    /\ sound_timer = Before.sound_timer

\* C1: after RegAdd(X, Y) with X # 15 the step has succeeded, VX is the sum of
\* the old VX and VY modulo 256 and register 15 is 1 if that sum exceeds 255,
\* else 0.
C1_RegAddSetsCarry ==
    (Did("RegAdd") /\ Last.opcode.register_x # 15) =>
        LET vx == Before.registers[Last.opcode.register_x]
            vy == Before.registers[Last.opcode.register_y]
        IN  /\ outcome = "ok"
            /\ registers[Last.opcode.register_x] = (vx + vy) % 256
            /\ registers[15] = IF vx + vy > 255 THEN 1 ELSE 0

\* C2: after RegSub(X, Y) with X # 15 the step has succeeded, VX is the old
\* VX minus VY modulo 256 and register 15 is 1 if VX >= VY (no borrow), else 0.
C2_RegSubSetsNoBorrow ==
    (Did("RegSub") /\ Last.opcode.register_x # 15) =>
        LET vx == Before.registers[Last.opcode.register_x]
            vy == Before.registers[Last.opcode.register_y]
        IN  /\ outcome = "ok"
            /\ registers[Last.opcode.register_x] = (vx - vy + 256) % 256
            /\ registers[15] = IF vx >= vy THEN 1 ELSE 0

\* C3: after RegReverseSub(X, Y) with X # 15 the step has succeeded, VX is the
\* old VY minus VX modulo 256, VY is unchanged (for Y other than X and 15) and
\* register 15 is 1 if VY >= VX, else 0.
C3_RegReverseSubSetsNoBorrow ==
    (Did("RegReverseSub") /\ Last.opcode.register_x # 15) =>
        LET x == Last.opcode.register_x
            y == Last.opcode.register_y
            vx == Before.registers[x]
            vy == Before.registers[y]
        IN  /\ outcome = "ok"
            /\ registers[x] = (vy - vx + 256) % 256
            /\ (y \notin {x, 15}) => registers[y] = vy
            /\ registers[15] = IF vy >= vx THEN 1 ELSE 0

\* C4: after RegAddConst(X, NN) the step has succeeded for every VX and NN, VX
\* is the old VX plus NN modulo 256, and register 15 is unchanged when X # 15.
C4_RegAddConstWraps ==
    Did("RegAddConst") =>
        LET x == Last.opcode.register
            vx == Before.registers[x]
        IN  /\ outcome = "ok"
            /\ registers[x] = (vx + Last.opcode.constant) % 256
            /\ (x # 15) => registers[15] = Before.registers[15]

\* C5: after RegRightShift(X) with X # 15 and pre-shift value v of VX, register
\* 15 is v mod 2, VX is v div 2 and no other register has changed.
C5_RightShiftFlagBeforeShift ==
    (Did("RegRightShift") /\ Last.opcode.register # 15) =>
        LET x == Last.opcode.register
            v == Before.registers[x]
        IN  /\ outcome = "ok"
            /\ registers[15] = v % 2
            /\ registers[x] = v \div 2
            /\ \A r \in Reg \ {x, 15} : registers[r] = Before.registers[r]
            /\ OnlyRegistersChanged

\* C5 happens: 0b101 in V0 shifted right gives 0b10 and sets a clear flag.
C5_Witness ==
    /\ Did("RegRightShift")
    /\ Last.opcode.register = 0
    /\ Before.registers[0] = 5
    /\ Before.registers[15] = 0
    /\ registers[0] = 2
    /\ registers[15] = 1

\* C6: after RegLeftShift(X) with X # 15 and pre-shift value v of VX, the step
\* has succeeded, register 15 is v div 128, VX is 2v mod 256 and no other
\* register has changed.
C6_LeftShiftFlagBeforeShift ==
    (Did("RegLeftShift") /\ Last.opcode.register # 15) =>
        LET x == Last.opcode.register
            v == Before.registers[x]
        IN  /\ outcome = "ok"
            /\ registers[15] = v \div 128
            /\ registers[x] = (2 * v) % 256
            /\ \A r \in Reg \ {x, 15} : registers[r] = Before.registers[r]
            /\ OnlyRegistersChanged

\* C6 happens: 0b10001001 in V0 shifted left gives 0b00010010 and sets the flag.
C6_Witness ==
    /\ Did("RegLeftShift")
    /\ Last.opcode.register = 0
    /\ Before.registers[0] = 137
    /\ Before.registers[15] = 0
    /\ outcome = "ok"
    /\ registers[0] = 18
    /\ registers[15] = 1

\* The program counter and the stack after the n-th step of trace.
PcAfter(n) ==
    IF n < Len(trace) THEN trace[n + 1].before.program_counter ELSE program_counter
StackAfter(n) ==
    IF n < Len(trace) THEN trace[n + 1].before.stack ELSE stack

\* Steps i .. i+2k-1 of trace are k Subroutine calls and then k Returns.
CallsThenReturns(i, k) ==
    /\ i + 2 * k - 1 <= Len(trace)
    /\ \A j \in 0..(k - 1) : trace[i + j].opcode.tag = "Subroutine"
    /\ \A j \in k..(2 * k - 1) : trace[i + j].opcode.tag = "Return"

\* C7: k Subroutine calls followed by k Returns pop the return addresses
\* last-in-first-out: the j-th Return sets the program counter to its value
\* just before the (k-j+1)-th call, and after the k-th Return the program
\* counter and the call stack are as they were before the first call.
C7_CallsReturnLifo ==
    \A i \in 1..Len(trace), k \in 1..Len(trace) :
        CallsThenReturns(i, k) =>
            /\ \A j \in 1..k :
                   PcAfter(i + k + j - 1) = trace[i + k - j].before.program_counter
            /\ PcAfter(i + 2 * k - 1) = trace[i].before.program_counter
            /\ StackAfter(i + 2 * k - 1) = trace[i].before.stack
            /\ (i + 2 * k - 1 = Len(trace)) => outcome = "ok"

\* C7 happens: two nested calls to different targets and both returns, on a
\* stack that already held an entry.
C7_Witness ==
    /\ Len(trace) = 4
    /\ CallsThenReturns(1, 2)
    /\ trace[1].opcode.target # trace[2].opcode.target
    /\ trace[1].before.stack = <<514>>
    /\ trace[1].before.program_counter = 512
    /\ trace[3].before.program_counter = trace[2].opcode.target
    /\ program_counter = 512
    /\ stack = <<514>>

\* C8 as stated: Return on an empty stack ends in the typed StackUnderflow
\* fault, returned as the result of the step; Return on a stack that is not
\* empty sets the program counter to the popped top entry and reduces the depth
\* by one.
C8_ReturnUnderflowIsTypedFault ==
    Did("Return") =>
        IF Before.stack = << >>
        THEN outcome = "StackUnderflow"
        ELSE /\ outcome = "ok"
             /\ program_counter = Before.stack[Len(Before.stack)]
             /\ Len(stack) = Len(Before.stack) - 1

\* C8 amended: Return on an empty stack panics (unwrap of the None that pop
\* returned) and leaves the machine as it was; Return on a stack that is not
\* empty sets the program counter to the popped top entry and removes exactly
\* that entry.
C8_ReturnUnderflowPanics ==
    Did("Return") =>
        IF Before.stack = << >>
        THEN /\ outcome = PanicUnwrapNone
             /\ outcome \notin TypedFaults
             /\ Machine = Before
        ELSE /\ outcome = "ok"
             /\ program_counter = Before.stack[Len(Before.stack)]
             /\ Len(stack) = Len(Before.stack) - 1
             /\ stack = SubSeq(Before.stack, 1, Len(Before.stack) - 1)

\* C8 happens: a Return executed on an empty stack, after a call and its
\* return had emptied it again.
C8_Witness ==
    /\ Len(trace) = 3
    /\ trace[1].opcode.tag = "Subroutine"
    /\ trace[2].opcode.tag = "Return"
    /\ trace[2].before.stack # << >>
    /\ Did("Return")
    /\ Before.stack = << >>
    /\ outcome = PanicUnwrapNone

\* C9: the depth of the call stack never exceeds its capacity, and a
\* Subroutine executed at capacity pushes nothing and fails.
C9_StackNeverExceedsCapacity ==
    /\ Len(stack) <= StackCapacity
    /\ (Did("Subroutine") /\ Len(Before.stack) >= StackCapacity) =>
           (outcome # "ok" /\ stack = Before.stack)
    /\ (Did("Subroutine") /\ Len(Before.stack) < StackCapacity) =>
           /\ outcome = "ok"
           /\ stack = Append(Before.stack, Before.program_counter)
           /\ program_counter = Last.opcode.target

\* The condition of a skip opcode on the registers regs.
SkipCondition(op, regs) ==
    CASE op.tag = "SkipNextIfRegEqualToConst" -> regs[op.register] = op.constant
      [] op.tag = "SkipNextIfRegNotEqualToConst" -> regs[op.register] # op.constant
      [] op.tag = "SkipNextIfRegEqualToReg" -> regs[op.register_x] = regs[op.register_y]
      [] op.tag = "SkipNextIfRegNotEqualToReg" -> regs[op.register_x] # regs[op.register_y]

DidSkipOpcode ==
    /\ Stepped
    /\ Last.opcode.tag \in {"SkipNextIfRegEqualToConst", "SkipNextIfRegNotEqualToConst",
                            "SkipNextIfRegEqualToReg", "SkipNextIfRegNotEqualToReg"}

\* Everything but the program counter is as before the last step.
OnlyPcChanged ==
    /\ memory = Before.memory
    /\ registers = Before.registers
    /\ index_register = Before.index_register
    /\ stack = Before.stack
    /\ delay_timer = Before.delay_timer
    /\ sound_timer = Before.sound_timer

\* C10 as stated: each skip operation adds exactly 2 to the program counter
\* when its condition holds on the current registers and leaves it unchanged
\* when it does not; registers, index register, stack, memory and timers are
\* unchanged in both cases.
C10_SkipAddsTwo ==
    DidSkipOpcode =>
        /\ outcome = "ok"
        /\ program_counter = Before.program_counter +
               (IF SkipCondition(Last.opcode, Before.registers) THEN 2 ELSE 0)
        /\ OnlyPcChanged

\* C10 amended: the same, for a program counter of at most 0xFFFD when the
\* condition holds; a skip whose condition does not hold leaves any program
\* counter unchanged.
C10_SkipAddsTwoBelowU16Max ==
    (/\ DidSkipOpcode
     /\ (SkipCondition(Last.opcode, Before.registers) =>
             Before.program_counter <= 65533)) =>
        /\ outcome = "ok"
        /\ program_counter = Before.program_counter +
               (IF SkipCondition(Last.opcode, Before.registers) THEN 2 ELSE 0)
        /\ OnlyPcChanged

\* C10 happens: a register-to-register skip is taken from 0xFFE and lands on
\* 0x1000.
C10_Witness ==
    /\ Did("SkipNextIfRegNotEqualToReg")
    /\ SkipCondition(Last.opcode, Before.registers)
    /\ Before.program_counter = 4094
    /\ program_counter = 4096
    /\ outcome = "ok"

\* C11: Goto(NNN) sets the program counter to NNN and JumpRegZero(NNN), for
\* NNN <= 0xFFF, sets it to the exact sum NNN + V0 (up to 0x10FE, not cut to
\* 12 bits); neither changes the call stack, a register or anything else.
C11_JumpsSetPc ==
    /\ Did("Goto") =>
           /\ outcome = "ok"
           /\ program_counter = Last.opcode.target
           /\ OnlyPcChanged
    /\ (Did("JumpRegZero") /\ Last.opcode.target <= 4095) =>
           /\ outcome = "ok"
           /\ program_counter = Last.opcode.target + Before.registers[0]
           /\ OnlyPcChanged

\* C11 happens: the largest jump, 0xFFF + 255, lands on 0x10FE.
C11_Witness ==
    /\ Did("JumpRegZero")
    /\ Last.opcode.target = 4095
    /\ Before.registers[0] = 255
    /\ Before.stack = <<514>>
    /\ program_counter = 4350
    /\ outcome = "ok"

\* The opcodes that redirect control flow: jumps, call, return and the skips.
RedirectingTags ==
    {"Goto", "Subroutine", "Return", "JumpRegZero",
     "SkipNextIfRegEqualToConst", "SkipNextIfRegNotEqualToConst",
     "SkipNextIfRegEqualToReg", "SkipNextIfRegNotEqualToReg",
     "SkipNextIfRegKeyPressed", "SkipNextIfRegKeyNotPressed"}

\* The last step succeeded and was not a jump, call, return or skip.
DidPlainInstruction ==
    /\ Stepped
    /\ outcome = "ok"
    /\ Last.opcode.tag \notin RedirectingTags

\* The last step was a skip whose condition held, and it succeeded.
DidTakenSkip ==
    /\ DidSkipOpcode
    /\ outcome = "ok"
    /\ SkipCondition(Last.opcode, Before.registers)

\* C12 as stated: a successfully executed instruction that does not redirect
\* control flow advances the program counter by exactly 2, and a skip whose
\* condition holds advances it by 4 in total.
C12_StepAdvancesPc ==
    /\ DidPlainInstruction => program_counter = Before.program_counter + 2
    /\ DidTakenSkip => program_counter = Before.program_counter + 4

\* C12 amended: executing an instruction that does not redirect control flow
\* leaves the program counter as it was, and a skip whose condition holds adds
\* exactly 2 to it (from a program counter of at most 0xFFFD); the advance by
\* the width of the instruction is not part of the execution of an opcode.
C12_StepLeavesAdvanceToCaller ==
    /\ DidPlainInstruction => program_counter = Before.program_counter
    /\ (DidTakenSkip /\ Before.program_counter <= 65533) =>
           program_counter = Before.program_counter + 2

\* C12 happens: a register was set, successfully, and the program counter is
\* where it was.
C12_Witness ==
    /\ Did("RegSetConst")
    /\ outcome = "ok"
    /\ registers # Before.registers
    /\ Before.program_counter = 512
    /\ program_counter = 512

\* The cells that are not zero in one of two memories: all others are equal.
NonZero(m1, m2) == DOMAIN m1 \cup DOMAIN m2

\* C13: after RegDump(X) with I + X <= 4095 the step has succeeded, memory[I + i]
\* is Vi for every i in 0..X, every other cell is as before, and the registers,
\* the index register and the rest of the machine are as before.
C13_RegDumpWritesRegisters ==
    (Did("RegDump") /\ Before.index_register + Last.opcode.register <= 4095) =>
        /\ outcome = "ok"
        /\ \A i \in 0..Last.opcode.register :
               mem_get(memory, Before.index_register + i) = Before.registers[i]
        /\ \A a \in NonZero(memory, Before.memory) :
               (a < Before.index_register \/ a > Before.index_register + Last.opcode.register)
                   => mem_get(memory, a) = mem_get(Before.memory, a)
        /\ registers = Before.registers
        /\ index_register = Before.index_register
        /\ program_counter = Before.program_counter
        /\ stack = Before.stack

\* C13 happens: sixteen registers were dumped into the last sixteen cells, and
\* the last cell now holds VF instead of what it held.
C13_Witness ==
    /\ Did("RegDump")
    /\ Last.opcode.register = 15
    /\ Before.index_register = 4080
    /\ outcome = "ok"
    /\ mem_get(Before.memory, 4095) = 11
    /\ mem_get(memory, 4095) = Before.registers[15]
    /\ mem_get(memory, 4095) # 11

\* The register file after step k of the run.
RegistersAfter(k) == IF k = Len(trace) THEN registers ELSE trace[k + 1].before.registers

\* Steps k and k + 1 are RegDump(X) and RegLoad(X) at the same index register,
\* with I + X <= 4095.
DumpThenLoad(k) ==
    /\ trace[k].opcode.tag = "RegDump"
    /\ trace[k + 1].opcode.tag = "RegLoad"
    /\ trace[k + 1].opcode.register = trace[k].opcode.register
    /\ trace[k + 1].before.index_register = trace[k].before.index_register
    /\ trace[k].before.index_register + trace[k].opcode.register <= 4095

\* C14: after RegLoad(X) with I + X <= 4095 the step has succeeded, Vi is
\* memory[I + i] for every i in 0..X, the registers above X, the memory and the
\* index register are as before; and RegDump(X) followed by RegLoad(X) at the
\* same I leaves all sixteen registers as they were before the dump.
C14_RegLoadInvertsRegDump ==
    /\ (Did("RegLoad") /\ Before.index_register + Last.opcode.register <= 4095) =>
           /\ outcome = "ok"
           /\ \A i \in 0..Last.opcode.register :
                  registers[i] = mem_get(Before.memory, Before.index_register + i)
           /\ \A i \in Reg : i > Last.opcode.register => registers[i] = Before.registers[i]
           /\ memory = Before.memory
           /\ index_register = Before.index_register
    /\ \A k \in 1..(Len(trace) - 1) :
           DumpThenLoad(k) => RegistersAfter(k + 1) = trace[k].before.registers

\* C14 happens: sixteen registers were dumped over other data and loaded back.
C14_Witness ==
    /\ Len(trace) = 2
    /\ DumpThenLoad(1)
    /\ trace[1].opcode.register = 15
    /\ trace[1].before.index_register = 4080
    /\ memory # trace[1].before.memory
    /\ outcome = "ok"
    /\ registers = trace[1].before.registers

\* The last step was a RegDump or RegLoad that computes an address past the end
\* of the memory.
DidOutOfBounds ==
    /\ Did("RegDump") \/ Did("RegLoad")
    /\ Before.index_register + Last.opcode.register >= MemorySize

\* C15 as stated: a RegDump or RegLoad that computes an address >= 4096 ends in
\* the typed fault MemoryOutOfBounds: it does not wrap and does not abort.
C15_OutOfBoundsIsTypedFault ==
    DidOutOfBounds => outcome = "MemoryOutOfBounds"

\* C15 amended: a RegDump or RegLoad that computes an address >= 4096 panics on
\* the array index. It never wraps: the RegDump has written exactly the cells
\* from I to 4095 and no cell below I, the RegLoad has set exactly the registers
\* whose cell is in range, and nothing else has changed.
C15_OutOfBoundsPanics ==
    DidOutOfBounds =>
        /\ outcome = PanicIndex
        /\ outcome \notin TypedFaults
        /\ \A a \in NonZero(memory, Before.memory) \cup
                    (Before.index_register..(MemorySize - 1)) :
               mem_get(memory, a) =
                   IF Did("RegDump") /\ a >= Before.index_register
                   THEN Before.registers[a - Before.index_register]
                   ELSE mem_get(Before.memory, a)
        /\ \A i \in Reg :
               registers[i] =
                   IF Did("RegLoad") /\ i <= Last.opcode.register
                                     /\ Before.index_register + i < MemorySize
                   THEN mem_get(Before.memory, Before.index_register + i)
                   ELSE Before.registers[i]
        /\ index_register = Before.index_register
        /\ program_counter = Before.program_counter
        /\ stack = Before.stack

\* C15 happens: a dump of sixteen registers at I = 4090 has panicked after
\* writing six cells, and cell 0 is untouched.
C15_Witness ==
    /\ Did("RegDump")
    /\ Last.opcode.register = 15
    /\ Before.index_register = 4090
    /\ outcome = PanicIndex
    /\ mem_get(memory, 4095) = Before.registers[5]
    /\ mem_get(memory, 0) = 3

\* An instruction was given to the decoder.
Decoded == instruction # << >>

\* The byte pairs of classes 0x8, 0xE and 0xF with no operation in the table.
Unrecognized(hi, lo) ==
    \/ hi \div 16 = 8 /\ lo % 16 \notin (0..7) \cup {14}
    \/ hi \div 16 = 14 /\ lo \notin {158, 161}
    \/ hi \div 16 = 15 /\ lo \notin {7, 10, 21, 24, 30, 41, 51, 85, 101}

\* The opcodes whose arm of execute_opcode is not written.
DeferredTags == {"ClearScreen", "DisplaySprite", "SkipNextIfRegKeyPressed",
                 "SkipNextIfRegKeyNotPressed", "SetRegToKeyPressed",
                 "MemMoveToRegChar", "StoreBCD"}

\* The sum or difference that op computes on machine m overflows its type.
Overflows(op, m) ==
    \/ op.tag = "RegAddConst" /\ m.registers[op.register] + op.constant > 255
    \/ op.tag = "RegAdd" /\ m.registers[op.register_x] + m.registers[op.register_y] > 255
    \/ op.tag = "RegSub" /\ m.registers[op.register_x] < m.registers[op.register_y]
    \/ op.tag = "RegReverseSub" /\ m.registers[op.register_y] < m.registers[op.register_x]
    \/ op.tag = "MemAddReg" /\ m.index_register + m.registers[op.register] > 65535
    \/ op.tag = "JumpRegZero" /\ m.registers[0] + op.target > 65535
    \/ /\ op.tag \in {"SkipNextIfRegEqualToConst", "SkipNextIfRegNotEqualToConst",
                      "SkipNextIfRegEqualToReg", "SkipNextIfRegNotEqualToReg"}
       /\ SkipCondition(op, m.registers)
       /\ m.program_counter + 2 > 65535

\* How the execution of op on machine m ends: "ok" or the panic.
ExecutionEnds(op, m) ==
    IF op.tag = "_NativeCall" THEN PanicNativeCall
    ELSE IF op.tag \in DeferredTags THEN PanicTodo
    ELSE IF op.tag = "Return" /\ m.stack = << >> THEN PanicUnwrapNone
    ELSE IF op.tag \in {"RegDump", "RegLoad"} /\ m.index_register + op.register >= 4096
         THEN PanicIndex
    ELSE IF overflow_checks /\ Overflows(op, m)
         THEN (IF op.tag \in {"RegSub", "RegReverseSub"} THEN PanicSubOverflow
               ELSE PanicAddOverflow)
    ELSE "ok"

\* C16 as stated: decode followed by execute ends in a next state or in one of
\* the typed faults returned to the caller, never in an abort.
C16_NoAbort ==
    outcome = "ok" \/ outcome \in TypedFaults

\* C16 amended: decode followed by execute ends in a next state or in a panic,
\* never in a typed fault.  The decoder panics exactly on the byte pairs of
\* classes 0x8, 0xE and 0xF that have no operation; the execution panics exactly
\* on _NativeCall, on the seven opcodes that are not implemented, on Return with
\* an empty stack, on a RegDump or RegLoad reaching past the memory and, in a
\* build with overflow checks, on an addition or subtraction that overflows.
C16_AbortsExactlyWhen ==
    /\ outcome \notin TypedFaults
    /\ (Decoded /\ ~Stepped) =>
           outcome = (IF Unrecognized(instruction[1], instruction[2])
                      THEN PanicOpcodeNotFound ELSE "ok")
    /\ (Decoded /\ Stepped) =>
           /\ ~Unrecognized(instruction[1], instruction[2])
           /\ outcome = ExecutionEnds(Last.opcode, Before)

\* C16 happens: 0x00EE was decoded and executed outside any subroutine, and the
\* step has panicked.
C16_Witness ==
    /\ instruction = <<0, 238>>
    /\ Did("Return")
    /\ Before.stack = << >>
    /\ outcome = PanicUnwrapNone

\* C17: executing _NativeCall is a fault whatever its target and the machine,
\* and leaves the machine as it was; and every byte pair of class 0 whose low
\* byte is neither 0xE0 nor 0xEE decodes to _NativeCall with target NNN.
C17_NativeCallAlwaysFaults ==
    /\ Did("_NativeCall") =>
           /\ outcome = PanicNativeCall
           /\ outcome # "ok"
           /\ Machine = Before
    /\ (Decoded /\ instruction[1] \div 16 = 0 /\ instruction[2] \notin {224, 238}) =>
           IF Stepped
           THEN Last.opcode = [tag |-> "_NativeCall",
                               target |-> 256 * (instruction[1] % 16) + instruction[2]]
           ELSE /\ outcome = "ok"
                /\ decoded = [tag |-> "_NativeCall",
                              target |-> 256 * (instruction[1] % 16) + instruction[2]]

\* C17 happens: 0x0FFF was decoded to _NativeCall(0xFFF) and executed inside a
\* subroutine; the step has failed and the machine is as it was.
C17_Witness ==
    /\ instruction = <<15, 255>>
    /\ Did("_NativeCall")
    /\ Last.opcode.target = 4095
    /\ Before.stack = <<514>>
    /\ outcome = PanicNativeCall
    /\ Machine = Before

\* C18: executing any of the deferred opcodes fails as not implemented and
\* leaves the whole machine as it was; it never completes.
C18_DeferredOpcodesFault ==
    (Stepped /\ Last.opcode.tag \in DeferredTags) =>
        /\ outcome = PanicTodo
        /\ outcome # "ok"
        /\ Machine = Before

\* C18 happens: DisplaySprite was executed inside a subroutine, the step has
\* failed as not implemented and the machine is as it was.
C18_Witness ==
    /\ Did("DisplaySprite")
    /\ Last.opcode.height = 5
    /\ Before.stack = <<514>>
    /\ outcome = PanicTodo
    /\ Machine = Before

\* The OpCode the decoder returned for instruction, executed since or not.
DecodedOp == IF Stepped THEN Last.opcode ELSE decoded

\* The dispatch table: the variant of each class that has one variant, and of
\* each sub-opcode of classes 0x8, 0xE and 0xF.
ClassVariant ==
    1 :> "Goto" @@ 2 :> "Subroutine" @@ 3 :> "SkipNextIfRegEqualToConst" @@
    4 :> "SkipNextIfRegNotEqualToConst" @@ 5 :> "SkipNextIfRegEqualToReg" @@
    6 :> "RegSetConst" @@ 7 :> "RegAddConst" @@ 9 :> "SkipNextIfRegNotEqualToReg" @@
    10 :> "Mem" @@ 11 :> "JumpRegZero" @@ 12 :> "RandToReg" @@ 13 :> "DisplaySprite"

Class8Variant ==
    0 :> "RegMov" @@ 1 :> "RegBitwiseOr" @@ 2 :> "RegBitwiseAnd" @@ 3 :> "RegBitwiseXor" @@
    4 :> "RegAdd" @@ 5 :> "RegSub" @@ 6 :> "RegRightShift" @@ 7 :> "RegReverseSub" @@
    14 :> "RegLeftShift"

ClassEVariant == 158 :> "SkipNextIfRegKeyPressed" @@ 161 :> "SkipNextIfRegKeyNotPressed"

ClassFVariant ==
    7 :> "SetRegToDelayTimer" @@ 10 :> "SetRegToKeyPressed" @@ 21 :> "SetDelayTimerToReg" @@
    24 :> "SetSoundTimerToReg" @@ 30 :> "MemAddReg" @@ 41 :> "MemMoveToRegChar" @@
    51 :> "StoreBCD" @@ 85 :> "RegDump" @@ 101 :> "RegLoad"

\* The variant the table gives for a byte pair with a recognized encoding.
Variant(hi, lo) ==
    LET class == hi \div 16
    IN  IF class = 0
        THEN (IF lo = 224 THEN "ClearScreen" ELSE IF lo = 238 THEN "Return" ELSE "_NativeCall")
        ELSE IF class = 8 THEN Class8Variant[lo % 16]
        ELSE IF class = 14 THEN ClassEVariant[lo]
        ELSE IF class = 15 THEN ClassFVariant[lo]
        ELSE ClassVariant[class]

\* The operation of a variant with the operands X, Y, N, NN, NNN it carries.
WithOperands(variant, X, Y, N, NN, NNN) ==
    IF variant \in {"ClearScreen", "Return"} THEN [tag |-> variant]
    ELSE IF variant \in {"_NativeCall", "Goto", "Subroutine", "Mem", "JumpRegZero"}
         THEN [tag |-> variant, target |-> NNN]
    ELSE IF variant \in {"SkipNextIfRegEqualToConst", "SkipNextIfRegNotEqualToConst",
                         "RegSetConst", "RegAddConst", "RandToReg"}
         THEN [tag |-> variant, register |-> X, constant |-> NN]
    ELSE IF variant \in {"SkipNextIfRegEqualToReg", "SkipNextIfRegNotEqualToReg", "RegMov",
                         "RegBitwiseOr", "RegBitwiseAnd", "RegBitwiseXor", "RegAdd",
                         "RegSub", "RegReverseSub"}
         THEN [tag |-> variant, register_x |-> X, register_y |-> Y]
    ELSE IF variant = "DisplaySprite"
         THEN [tag |-> variant, coord_x |-> X, coord_y |-> Y, height |-> N]
    ELSE [tag |-> variant, register |-> X]

\* C19: for every byte pair (hi, lo) with a recognized encoding the decoder
\* returns the operation of the dispatch table, with operands X = hi mod 16,
\* Y = lo div 16, N = lo mod 16, NN = lo and NNN = 256 * X + lo; the two shifts
\* carry X only.
C19_DecodeFollowsTable ==
    (Decoded /\ ~Unrecognized(instruction[1], instruction[2])) =>
        LET hi == instruction[1]
            lo == instruction[2]
            X == hi % 16
        IN  /\ Stepped \/ outcome = "ok"
            /\ DecodedOp = WithOperands(Variant(hi, lo), X, lo \div 16, lo % 16, lo,
                                        256 * X + lo)
            /\ DecodedOp.tag \in {"RegRightShift", "RegLeftShift"} =>
                   DecodedOp = [tag |-> DecodedOp.tag, register |-> X]

\* C19 happens: 0x8126 was decoded to the right shift of register 1.
C19_Witness ==
    /\ instruction = <<129, 38>>
    /\ ~Stepped
    /\ outcome = "ok"
    /\ decoded = [tag |-> "RegRightShift", register |-> 1]

\* The classes with a single variant, and class 0 with its fallback.
TotalClasses == (0..7) \cup (9..13)

\* C20: for every high byte of classes 0x0-0x7 and 0x9-0xD and every low byte
\* the decoder returns an operation and does not fail: class 0 falls back to
\* _NativeCall, classes 0x5 and 0x9 accept every low nibble.
C20_DecodeTotalOnPlainClasses ==
    (Decoded /\ instruction[1] \div 16 \in TotalClasses) =>
        LET class == instruction[1] \div 16
        IN  /\ outcome # PanicOpcodeNotFound
            /\ DecodedOp # NoOpCode
            /\ DecodedOp.tag # "panic"
            /\ (class = 0 /\ instruction[2] \notin {224, 238}) => DecodedOp.tag = "_NativeCall"
            /\ class = 5 => DecodedOp.tag = "SkipNextIfRegEqualToReg"
            /\ class = 9 => DecodedOp.tag = "SkipNextIfRegNotEqualToReg"

\* C20 happens: 0x5ABF, a class 5 instruction with low nibble 0xF, was decoded
\* to the comparison of registers 0xA and 0xB.
C20_Witness ==
    /\ instruction = <<90, 191>>
    /\ ~Stepped
    /\ outcome = "ok"
    /\ decoded = [tag |-> "SkipNextIfRegEqualToReg", register_x |-> 10, register_y |-> 11]

\* C21 as stated: for every byte pair of classes 0x8, 0xE and 0xF with an
\* unknown sub-opcode the decoder yields the typed DecodeError, never a crash.
C21_UnknownSubOpcodeIsDecodeError ==
    (Decoded /\ Unrecognized(instruction[1], instruction[2])) => outcome = "DecodeError"

\* C21 amended: for every byte pair of classes 0x8, 0xE and 0xF with an unknown
\* sub-opcode the decoder panics with "Opcode not found": it returns no OpCode,
\* nothing is executed and the machine is untouched.
C21_UnknownSubOpcodePanics ==
    (Decoded /\ Unrecognized(instruction[1], instruction[2])) =>
        /\ outcome = PanicOpcodeNotFound
        /\ outcome \notin TypedFaults
        /\ decoded = NoOpCode
        /\ trace = << >>
        /\ delay_timer = 9 /\ sound_timer = 3 /\ DOMAIN memory = {768, 769}

\* C21 happens: 0x8AB8, class 8 with low nibble 8, was given to the decoder.
C21_Witness ==
    /\ instruction = <<138, 184>>
    /\ outcome = PanicOpcodeNotFound
    /\ decoded = NoOpCode

\* The fields of an OpCode that name a register, and those that hold a nibble.
RegisterFields == {"register", "register_x", "register_y", "coord_x", "coord_y"}
NibbleFields == RegisterFields \cup {"height"}

\* C22: every OpCode the decoder returns carries register indices and nibbles
\* in 0..15, constants in 0..255 and targets in 0..0xFFF, and executing it never
\* fails on an index into the register file: the only index panic is that of a
\* RegDump or RegLoad reaching past the memory, and the register file keeps its
\* sixteen cells.
C22_DecodedOperandsInRange ==
    (Decoded /\ DecodedOp # NoOpCode) =>
        /\ \A f \in DOMAIN DecodedOp \cap NibbleFields : DecodedOp[f] \in 0..15
        /\ "constant" \in DOMAIN DecodedOp => DecodedOp.constant \in 0..255
        /\ "target" \in DOMAIN DecodedOp => DecodedOp.target \in 0..4095
        /\ DOMAIN registers = 0..15
        /\ (Stepped /\ outcome = PanicIndex) =>
               /\ Last.opcode.tag \in {"RegDump", "RegLoad"}
               /\ Before.index_register + Last.opcode.register >= 4096

\* C22 happens: 0xFF65 was decoded to RegLoad(15) and executed, and all sixteen
\* registers were loaded.
C22_Witness ==
    /\ instruction = <<255, 101>>
    /\ Did("RegLoad")
    /\ Last.opcode.register = 15
    /\ outcome = "ok"
    /\ registers[0] = 7 /\ registers[1] = 9 /\ registers[15] = 0

\* Bit k of the byte v.
Bit(v, k) == (v \div (2 ^ k)) % 2

\* C23: after RandToReg(X, NN) with r the byte drawn, the step has succeeded, a
\* bit of VX is 1 exactly when it is 1 in both r and NN (so NN = 0 gives
\* VX = 0), exactly one byte was drawn, and every register other than VX, and
\* everything but the register file, is as before.
C23_RandToRegMasksOneByte ==
    Did("RandToReg") =>
        /\ outcome = "ok"
        /\ Len(rng) = Len(trace)
        /\ \A k \in 0..7 :
               Bit(registers[Last.opcode.register], k) = 1
                   <=> (Bit(rng[Len(rng)], k) = 1 /\ Bit(Last.opcode.constant, k) = 1)
        /\ registers[Last.opcode.register] \in 0..255
        /\ Last.opcode.constant = 0 => registers[Last.opcode.register] = 0
        /\ \A i \in Reg : i # Last.opcode.register => registers[i] = Before.registers[i]
        /\ OnlyRegistersChanged

\* C23 happens: the byte 0xFF was drawn and masked with 0x36 into V0, which
\* held 200.
C23_Witness ==
    /\ Did("RandToReg")
    /\ Last.opcode = [tag |-> "RandToReg", register |-> 0, constant |-> 54]
    /\ rng = <<255>>
    /\ Before.registers[0] = 200
    /\ registers[0] = 54
    /\ registers[15] = Before.registers[15]

\* The steps of the run so far that were the opcode tag.
StepsOf(tag) == {k \in 1..Len(trace) : trace[k].opcode.tag = tag}

\* The greatest element of a set of numbers that is not empty.
Greatest(S) == CHOOSE k \in S : \A j \in S : j <= k

\* The register value the most recent opcode tag wrote to its timer, 0 if there
\* was none.
LastWritten(tag) ==
    IF StepsOf(tag) = {} THEN 0
    ELSE LET k == Greatest(StepsOf(tag))
         IN  trace[k].before.registers[trace[k].opcode.register]

\* C24: after any sequence of operations the delay timer is the register value
\* written by the most recent SetDelayTimerToReg and the sound timer the one
\* written by the most recent SetSoundTimerToReg, 0 if there was none; and
\* SetRegToDelayTimer(X) copies the delay timer into VX and leaves both timers
\* as they were.
C24_TimersOnlySetNeverCounted ==
    /\ delay_timer = LastWritten("SetDelayTimerToReg")
    /\ sound_timer = LastWritten("SetSoundTimerToReg")
    /\ Did("SetRegToDelayTimer") =>
           /\ outcome = "ok"
           /\ registers[Last.opcode.register] = Before.delay_timer
           /\ delay_timer = Before.delay_timer
           /\ sound_timer = Before.sound_timer

\* C24 happens: the delay timer was set to 200, other instructions ran, and it
\* was read back as 200 while the sound timer is still 0.
C24_Witness ==
    /\ Len(trace) = 4
    /\ trace[2].opcode = [tag |-> "SetDelayTimerToReg", register |-> 0]
    /\ trace[3].opcode.tag = "Subroutine"
    /\ Did("SetRegToDelayTimer")
    /\ Last.opcode.register = 1
    /\ registers[1] = 200
    /\ delay_timer = 200
    /\ sound_timer = 0

\* Everything but the index register is as before the last step.
OnlyIndexChanged ==
    /\ memory = Before.memory
    /\ registers = Before.registers
    /\ program_counter = Before.program_counter
    /\ stack = Before.stack
    /\ delay_timer = Before.delay_timer
    /\ sound_timer = Before.sound_timer

\* Mem(NNN) has set the index register to NNN and touched nothing else.
MemSetsIndex ==
    Did("Mem") =>
        /\ outcome = "ok"
        /\ index_register = Last.opcode.target
        /\ OnlyIndexChanged

\* C25 as stated: Mem(NNN) sets the index register to NNN, and MemAddReg(X) sets
\* it to I + VX without fault and without truncation, whatever I and VX are;
\* neither touches the memory.
C25_IndexSetAndAdded ==
    /\ MemSetsIndex
    /\ Did("MemAddReg") =>
           /\ outcome = "ok"
           /\ index_register = Before.index_register + Before.registers[Last.opcode.register]
           /\ OnlyIndexChanged

\* C25 amended: Mem(NNN) sets the index register to NNN, and MemAddReg(X) with
\* I + VX <= 0xFFFF sets it to I + VX without fault and without truncation to
\* 12 bits; neither touches the memory or anything but the index register.
C25_IndexSetAndAddedBelowU16Max ==
    /\ MemSetsIndex
    /\ (Did("MemAddReg")
          /\ Before.index_register + Before.registers[Last.opcode.register] <= 65535) =>
           /\ outcome = "ok"
           /\ index_register = Before.index_register + Before.registers[Last.opcode.register]
           /\ OnlyIndexChanged

\* C25 happens: 200 was added to an index register of 0xFFF, which is now 4295.
C25_Witness ==
    /\ Did("MemAddReg")
    /\ Before.index_register = 4095
    /\ Before.registers[Last.opcode.register] = 200
    /\ outcome = "ok"
    /\ index_register = 4295
    /\ memory = Before.memory

\* C26: after MemAddReg(X) with X # 15, VF is 1 when I + VX > 0xFFF and 0 when
\* it is not.
C26_MemAddRegSetsFlag ==
    (Did("MemAddReg") /\ Last.opcode.register # 15 /\ outcome = "ok") =>
        registers[15] =
            (IF Before.index_register + Before.registers[Last.opcode.register] > 4095
             THEN 1 ELSE 0)

\* The opcodes that copy or combine bits.
BitsTags == {"RegSetConst", "RegMov", "RegBitwiseOr", "RegBitwiseAnd", "RegBitwiseXor"}

\* The register the last opcode, one of BitsTags, wrote.
BitsTarget ==
    IF Last.opcode.tag = "RegSetConst" THEN Last.opcode.register ELSE Last.opcode.register_x

\* Bit k of the result the last opcode, one of the three bitwise ones, is to give.
BitsResult(k) ==
    LET a == Bit(Before.registers[Last.opcode.register_x], k)
        b == Bit(Before.registers[Last.opcode.register_y], k)
    IN  CASE Last.opcode.tag = "RegBitwiseOr" -> IF a = 1 \/ b = 1 THEN 1 ELSE 0
          [] Last.opcode.tag = "RegBitwiseAnd" -> IF a = 1 /\ b = 1 THEN 1 ELSE 0
          [] Last.opcode.tag = "RegBitwiseXor" -> IF a # b THEN 1 ELSE 0

\* C27: for X # 15, RegMov sets VX to VY, RegBitwiseOr/And/Xor set VX to the
\* bitwise or, and, xor of VX and VY, RegSetConst sets VX to NN, and each leaves
\* register 15 and every register other than VX, the source VY included, as it
\* was, and touches nothing but the register file.
C27_BitsHaveNoFlagEffect ==
    (Stepped /\ Last.opcode.tag \in BitsTags /\ BitsTarget # 15) =>
        /\ outcome = "ok"
        /\ Last.opcode.tag = "RegSetConst" => registers[BitsTarget] = Last.opcode.constant
        /\ Last.opcode.tag = "RegMov" =>
               registers[BitsTarget] = Before.registers[Last.opcode.register_y]
        /\ Last.opcode.tag \in {"RegBitwiseOr", "RegBitwiseAnd", "RegBitwiseXor"} =>
               /\ registers[BitsTarget] \in 0..255
               /\ \A k \in 0..7 : Bit(registers[BitsTarget], k) = BitsResult(k)
        /\ registers[15] = Before.registers[15]
        /\ \A r \in Reg \ {BitsTarget} : registers[r] = Before.registers[r]
        /\ OnlyRegistersChanged

\* C27 happens: V0 = 200 xor V1 = 100 gave 172, with V1 and a flag register of
\* 171 as they were.
C27_Witness ==
    /\ Did("RegBitwiseXor")
    /\ Last.opcode.register_x = 0 /\ Last.opcode.register_y = 1
    /\ Before.registers[0] = 200 /\ Before.registers[1] = 100 /\ Before.registers[15] = 171
    /\ registers[0] = 172 /\ registers[1] = 100 /\ registers[15] = 171

\* Both RandToReg of test_rand2reg have run.
DrewTwice == Len(trace) = 2 /\ Did("RandToReg")

MaskBits == {k \in 0..7 : Bit(54, k) = 1}

C29_FaultLeavesStateAsBefore ==
    (DidOutOfBounds /\ Before.index_register < MemorySize) =>
        /\ outcome # "ok"
        /\ memory = Before.memory
        /\ registers = Before.registers

\* The opcodes that are to write the flag register.
FlagTags == {"RegAdd", "RegSub", "RegReverseSub", "RegRightShift", "RegLeftShift"}

\* The register the last opcode, one of FlagTags, wrote.
FlagTarget ==
    IF Last.opcode.tag \in {"RegRightShift", "RegLeftShift"}
    THEN Last.opcode.register ELSE Last.opcode.register_x

\* C30: after a flag-writing instruction with X # 15 register 15 holds 0 or 1,
\* whatever it held before the step.
C30_FlagIsZeroOrOne ==
    (Stepped /\ Last.opcode.tag \in FlagTags /\ FlagTarget # 15 /\ outcome = "ok") =>
        registers[15] \in {0, 1}

\* C31: a shift of register 15 writes the shifted result last, over the bit it
\* captured: with v the value of register 15 before the step, register 15 ends
\* as v div 2 after RegRightShift(15) and as (2 * v) mod 256 after
\* RegLeftShift(15), and no other register changes.
C31_ShiftOfFlagRegisterKeepsResult ==
    /\ (Did("RegRightShift") /\ Last.opcode.register = 15) =>
           /\ outcome = "ok"
           /\ registers[15] = Before.registers[15] \div 2
           /\ \A r \in Reg \ {15} : registers[r] = Before.registers[r]
           /\ OnlyRegistersChanged
    /\ (Did("RegLeftShift") /\ Last.opcode.register = 15) =>
           /\ outcome = "ok"
           /\ registers[15] = (2 * Before.registers[15]) % 256
           /\ \A r \in Reg \ {15} : registers[r] = Before.registers[r]
           /\ OnlyRegistersChanged

\* C31 happens: register 15 held 0b10000001 and was shifted left; it holds
\* 0b00000010, not the outgoing bit 1.
C31_Witness ==
    /\ Did("RegLeftShift")
    /\ Last.opcode.register = 15
    /\ Before.registers[15] = 129
    /\ registers[15] = 2
    /\ outcome = "ok"

\* Step k of the run did not panic.
Succeeded(k) == k < Len(trace) \/ outcome = "ok"

\* The successful steps of the run so far that were the opcode tag.
SuccessfulStepsOf(tag) == {k \in StepsOf(tag) : Succeeded(k)}

\* The last step was a skip whose condition held.
LastSkipTaken == DidSkipOpcode /\ SkipCondition(Last.opcode, Before.registers)

\* C32: each operation changes only its own part of the state.  The stack is
\* changed only by Subroutine and Return; the program counter only by Goto,
\* Subroutine, Return, JumpRegZero and a skip whose condition holds; the memory
\* only by RegDump; the index register only by Mem and MemAddReg; the delay
\* timer only by SetDelayTimerToReg and the sound timer only by
\* SetSoundTimerToReg.  And after any sequence of operations on an emulator that
\* started outside any subroutine the depth of the stack is the number of
\* successful Subroutine steps minus the number of successful Return steps.
C32_EachOperationChangesItsOwnPart ==
    /\ Stepped =>
           /\ stack # Before.stack => Last.opcode.tag \in {"Subroutine", "Return"}
           /\ program_counter # Before.program_counter =>
                  \/ Last.opcode.tag \in {"Goto", "Subroutine", "Return", "JumpRegZero"}
                  \/ LastSkipTaken
           /\ memory # Before.memory => Last.opcode.tag = "RegDump"
           /\ index_register # Before.index_register =>
                  Last.opcode.tag \in {"Mem", "MemAddReg"}
           /\ delay_timer # Before.delay_timer => Last.opcode.tag = "SetDelayTimerToReg"
           /\ sound_timer # Before.sound_timer => Last.opcode.tag = "SetSoundTimerToReg"
    /\ Len(stack) = Cardinality(SuccessfulStepsOf("Subroutine"))
                        - Cardinality(SuccessfulStepsOf("Return"))

\* C32 happens: a subroutine was called and has returned; the stack is empty
\* again, the program counter is back at the call, and nothing else has changed.
C32_Witness ==
    /\ Len(trace) = 2
    /\ trace[1].opcode.tag = "Subroutine"
    /\ Did("Return")
    /\ outcome = "ok"
    /\ Before.stack = <<512>>
    /\ stack = << >>
    /\ program_counter = 512
    /\ memory = trace[1].before.memory
    /\ index_register = trace[1].before.index_register

====
